---- MODULE Spec2Model ----
(***************************************************************************)
(* CasperBridge relayer: the two chain monitors (CasperMonitor,            *)
(* EthereumMonitor), the orchestrator BridgeRelayer that wires them, and   *)
(* the proof submission each monitor performs for the opposite chain.      *)
(*                                                                         *)
(* Every await of the TypeScript code is a step boundary: an action is the *)
(* synchronous code that runs when one awaited gateway call (or sleep)     *)
(* resolves, up to the next await.  Signing awaits no I/O; its             *)
(* continuation runs from the microtask queue before any gateway response  *)
(* is delivered, so it belongs to the step that invoked the submission.    *)
(*                                                                         *)
(* The two directions are independent pipelines (they share only the       *)
(* orchestrator's lifecycle), so a behaviour follows the chain activity of *)
(* one direction: "lock" (Casper -> Ethereum) or "burn" (Ethereum ->       *)
(* Casper).  The other monitor is started and stopped all the same, but    *)
(* the steps of its polling loop, which finds nothing, are not followed.   *)
(***************************************************************************)
EXTENDS Integers, Sequences, FiniteSets, TLC

(***************************************************************************)
(* Bounds of the model and configuration values.                           *)
(***************************************************************************)
\* highest Ethereum block number mined in a behaviour
MaxEthHead == 2
\* highest Casper block height produced in a behaviour
MaxCasperHead == 2
\* AssetBurned logs on the Ethereum chain
MaxBurns == 2
\* BridgeRelayer.start() calls in a behaviour
MaxStarts == 2
\* start() calls of EthereumMonitor whose pollEvents loop has not ended
MaxEthLoops == 2
\* start() calls of CasperMonitor whose pollEvents loop has not ended
MaxCasperLoops == 1
\* submitMintProof / submitReleaseProof invocations recorded per direction
MaxSubs == 2
\* trackDeploy calls in a behaviour
MaxTracks == 1
\* CONFIRMATION_BLOCKS_ETHEREUM (config.confirmationBlocks of EthereumMonitor)
EthConfirmationBlocks == 1
\* CONFIRMATION_BLOCKS_CASPER (config.confirmationBlocks of CasperMonitor)
CasperConfirmationBlocks == 3
\* retries of getBlockNumber in EthereumMonitor.start
StartRetries == 3
\* MAX_BLOCKS_PER_QUERY of EthereumMonitor.processBlocks
MAX_BLOCKS_PER_QUERY == 10
\* transactions sent to the wrapper contract in a behaviour
MaxCalls == 3

\* largest first and last block processBlocks is called with
MaxChunkFrom == 3

MaxChunkTo == 25

\* messages built by the signers in a behaviour
MaxSigned == 2
\* type(uint256).max, scaled down
MaxUint == 7
\* deployHash.substring(0, 8)
NoncePrefixLen == 8
\* BigInt(1_000_000_000): 10^9 between motes (9 decimals) and wei (18 decimals)
DecimalShift == 9

(***************************************************************************)
(* Decimal strings and BigInt.  Amounts travel as decimal strings          *)
(* (event.args.amount.toString(), value.parsed); a string is a sequence of *)
(* digits, most significant first.  A BigInt is kept as its canonical      *)
(* digit sequence (no leading zero, <<0>> for zero), so that amounts of    *)
(* 10^18 and more stay exact.                                              *)
(***************************************************************************)
Min(a, b) == IF a <= b THEN a ELSE b

RECURSIVE StripZeros(_)
StripZeros(s) ==
  IF Len(s) <= 1 THEN (IF s = << >> THEN <<0>> ELSE s)
  ELSE IF Head(s) = 0 THEN StripZeros(Tail(s)) ELSE s

\* BigInt(str) for a string of decimal digits
BigIntOf(s) == StripZeros(s)

Zeros(k) == [i \in 1..k |-> 0]

\* no multiplication: the amount is passed on as it is
BigIntMulNone(a, k) == a

\* a * 10^k on BigInt
BigIntMulPow10(a, k) == IF a = <<0>> THEN <<0>> ELSE a \o Zeros(k)

RECURSIVE BigIntSucc(_)
\* a + 1n on BigInt
BigIntSucc(a) ==
  IF a = << >> THEN <<1>>
  ELSE IF a[Len(a)] < 9 THEN [a EXCEPT ![Len(a)] = @ + 1]
  ELSE BigIntSucc(SubSeq(a, 1, Len(a) - 1)) \o <<0>>

RECURSIVE DigitsLess(_, _)
\* a < b for digit sequences of one length
DigitsLess(a, b) ==
  IF a = << >> THEN FALSE
  ELSE IF Head(a) # Head(b) THEN Head(a) < Head(b)
  ELSE DigitsLess(Tail(a), Tail(b))

\* a < b on BigInt
BigIntLess(a, b) ==
  IF Len(a) # Len(b) THEN Len(a) < Len(b) ELSE DigitsLess(a, b)

\* a <= b on BigInt
BigIntLeq(a, b) == a = b \/ BigIntLess(a, b)

\* a division that rounds to the nearest integer, half up
BigIntDivPow10Rounded(a, k) ==
  IF Len(a) < k THEN <<0>>
  ELSE LET q == IF Len(a) = k THEN <<0>> ELSE SubSeq(a, 1, Len(a) - k)
       IN IF a[Len(a) - k + 1] >= 5 THEN StripZeros(BigIntSucc(q)) ELSE q

\* a / 10^k on BigInt: integer division, truncating
BigIntDivPow10(a, k) == IF Len(a) <= k THEN <<0>> ELSE SubSeq(a, 1, Len(a) - k)

\* bigint.toString()
BigIntToString(a) == a

RECURSIVE NatToString(_)
\* number.toString() of a non-negative integer
NatToString(n) ==
  IF n < 10 THEN <<n>> ELSE NatToString(n \div 10) \o <<n % 10>>

RECURSIVE Pow(_, _)
Pow(b, e) == IF e = 0 THEN 1 ELSE b * Pow(b, e - 1)

RECURSIVE HexValue(_)
\* the value of a sequence of hex digits
HexValue(s) ==
  IF s = << >> THEN 0
  ELSE Head(s) * Pow(16, Len(s) - 1) + HexValue(Tail(s))

\* parseInt(deployHash.substring(0, 8), 16)
ParseNonce(deployHash) ==
  HexValue(SubSeq(deployHash, 1, Min(NoncePrefixLen, Len(deployHash))))

\* the literal '0x0' that `x.txHash || '0x0'` falls back to
ZeroTxHash == <<0>>

\* `v || dflt` on a value that is undefined when the field is missing
OrDefault(rec, fld, dflt) ==
  IF fld \in DOMAIN rec /\ rec[fld] # << >> THEN rec[fld] ELSE dflt

(***************************************************************************)
(* State.                                                                  *)
(***************************************************************************)
VARIABLES
  direction,            \* which pipeline's chain activity the behaviour follows
  relayerIsRunning,     \* BridgeRelayer.isRunning
  relayerStopPending,   \* a BridgeRelayer.stop() awaits httpServer.close
  lockListeners,        \* listeners registered for 'AssetLocked'
  burnListeners,        \* listeners registered for 'AssetBurned'
  \* Ethereum chain and EthereumMonitor
  ethHead,              \* provider.getBlockNumber()
  ethLogs,              \* AssetBurned logs of the wrapper contract, in order
  ethIsRunning,         \* EthereumMonitor.isRunning
  ethContract,          \* EthereumMonitor.contract is non-null
  ethLastProcessedBlock,\* EthereumMonitor.lastProcessedBlock
  ethLoops,             \* start() calls and the pollEvents loops they spawn
  releaseSubs,          \* submitReleaseProof invocations, in order
  \* Casper chain and CasperMonitor
  casperHead,           \* height of the latest block
  casperBlocks,         \* height -> deploy hashes of the block body
  casperIsRunning,      \* CasperMonitor.isRunning
  casperLastProcessedBlock, \* CasperMonitor.lastProcessedBlock
  processedDeploys,     \* CasperMonitor.processedDeploys
  pendingDeploys,       \* CasperMonitor.pendingDeploys, in insertion order
  casperLoops,          \* pollEvents loops of CasperMonitor
  mintSubs,             \* submitMintProof invocations, in order
  \* history, read by the properties only
  ethScanned,           \* blocks some queryFilter call has covered
  ethScannedOk,         \* blocks covered by a queryFilter call that succeeded
  casperWatched,        \* deploys included while the Casper watcher was polling
  ethStopSeen,          \* EthereumMonitor.stop() has been called
  casperStopSeen,       \* CasperMonitor.stop() has been called
  tracks,               \* number of trackDeploy calls so far
  \* the CasperBridgeWrapper contract
  wrapper,              \* storage of the contract and the events it emitted
  lastCall,             \* the last transaction sent to the contract, its outcome
  \* the signers
  signed                \* the messages built by the signers, in order

relayerVars == <<relayerIsRunning, relayerStopPending, lockListeners, burnListeners>>

ethVars == <<ethHead, ethLogs, ethIsRunning, ethContract, ethLastProcessedBlock,
             ethLoops, releaseSubs, ethScanned, ethScannedOk, ethStopSeen>>

casperVars == <<casperHead, casperBlocks, casperIsRunning, casperLastProcessedBlock,
                processedDeploys, pendingDeploys, casperLoops, mintSubs,
                casperWatched, casperStopSeen, tracks>>

wrapperVars == <<wrapper, lastCall>>

signerVars == <<signed>>

vars == <<direction, relayerVars, ethVars, casperVars, wrapperVars, signerVars>>

EthLoopIds == 1..MaxEthLoops

CasperLoopIds == 1..MaxCasperLoops

\* digits of a burn amount below 10^9 wei (dust) and of 5 * 10^18 wei
DustWei == <<1>>

FiveCsprWei == <<5>> \o Zeros(18)

EthAmounts == {DustWei, FiveCsprWei}

\* the Casper account a burn names as destinationAddress
CasperRecipient == "account-hash-7f"

\* the Ethereum address a lock names as destination_address
EthRecipient == "0x58A8"

\* hash of the transaction mined in Ethereum block b
EthTxHash(b) == <<14, b>>

(***************************************************************************)
(* Initial state: the objects as their constructors leave them, both       *)
(* chains at their first block.                                            *)
(***************************************************************************)
(***************************************************************************)
(* CasperBridgeWrapper: addresses and construction.  uint256 is scaled     *)
(* down to 0..MaxUint; Solidity 0.8 arithmetic reverts on overflow.        *)
(***************************************************************************)
\* address(0)
ZeroAddress == "0x0"

\* the deployer, and two more accounts
Deployer == "deployer"

Accounts == {Deployer, "alice", "bob"}

\* constructor(_requiredSignatures, _minBurnAmount), sent by msg.sender
WrapperConstructed(sender, _requiredSignatures, _minBurnAmount) ==
  [owner |-> sender,
   validators |-> {sender},
   validatorList |-> <<sender>>,
   processedNonces |-> {},
   requiredSignatures |-> _requiredSignatures,
   nonce |-> 0,
   totalBridged |-> 0,
   minBurnAmount |-> _minBurnAmount,
   paused |-> FALSE,
   balances |-> [a \in Accounts |-> 0],
   events |-> << >>]

\* no transaction was sent to the contract yet
NoCall == [n |-> 0, fn |-> "constructor", result |-> "ok"]

(***************************************************************************)
(* CasperBridgeWrapper.mint.  A signature is the pair of its signer and    *)
(* the hash it was made over; a call that reverts leaves the storage as it *)
(* was and emits nothing.                                                  *)
(***************************************************************************)
\* abi.encodePacked / solidityPacked of (string, string, uint256, address,
\* uint256): the bytes of the two strings one after the other, without
\* lengths, then the three values in 32, 20 and 32 bytes; keccak256 of it is
\* taken to be free of collisions, so the hash stands for these bytes
EncodePacked(sourceChain, sourceTxHash, amount, recipient, nonce) ==
  <<sourceChain \o sourceTxHash, amount, recipient, nonce>>

\* _getMessageHash: keccak256 of the packed fields
MessageHash(proof) ==
  EncodePacked(proof.sourceChain, proof.sourceTxHash, proof.amount,
               proof.recipient, proof.nonce)

\* EthereumSigner.createMessageHash: solidityPackedKeccak256 of the fields
createMessageHash(sourceChain, sourceTxHash, amount, recipient, nonce) ==
  EncodePacked(sourceChain, sourceTxHash, amount, recipient, nonce)

\* CasperSigner.createMessage: the bytes of
\* `${sourceChain}|${sourceTxHash}|${amount}|${nonce}` followed by the bytes
\* of recipient
createMessage(sourceChain, sourceTxHash, amount, recipient, nonce) ==
  (sourceChain \o "|" \o sourceTxHash \o "|" \o amount \o "|" \o nonce) \o recipient

\* ECDSA.recover(ethSignedMessageHash, signature): the signer for the hash
\* the signature was made over, an unrelated address for any other hash
Recover(hash, sig) == IF sig.over = hash THEN sig.signer ELSE "stranger"

RECURSIVE ValidSignatures(_, _, _, _, _)
\* the loop of _verifySignatures from signature i on: validSignatures at its
\* end (seenSigners holds the validators counted so far, seenCount its length)
ValidSignatures(w, hash, sigs, i, seenSigners) ==
  IF i > Len(sigs) THEN Len(seenSigners)
  ELSE LET signer == Recover(hash, sigs[i])
           isDuplicate == \E j \in 1..Len(seenSigners) : seenSigners[j] = signer
       IN IF signer \notin w.validators
          THEN ValidSignatures(w, hash, sigs, i + 1, seenSigners)
          ELSE IF isDuplicate
          THEN ValidSignatures(w, hash, sigs, i + 1, seenSigners)
          ELSE ValidSignatures(w, hash, sigs, i + 1, Append(seenSigners, signer))

\* a verification that counts every signature of a validator
verifySignaturesCounting(w, proof) ==
  Cardinality({k \in DOMAIN proof.validatorSignatures :
                 Recover(MessageHash(proof), proof.validatorSignatures[k])
                   \in w.validators})
    >= w.requiredSignatures

\* _verifySignatures
verifySignatures(w, proof) ==
  ValidSignatures(w, MessageHash(proof), proof.validatorSignatures, 1, << >>)
    >= w.requiredSignatures

\* a modifier that lets every call through
NeverPaused(w) == FALSE

\* whenNotPaused reverts
EnforcedPause(w) == w.paused

\* a replay test that finds no nonce processed
NonceNeverProcessed(w, n) == FALSE

\* processedNonces[proof.nonce]
NonceProcessed(w, n) == n \in w.processedNonces

\* mint: "ok", or the reason of the first revert
MintOutcome(w, proof) ==
  IF EnforcedPause(w) THEN "EnforcedPause"
  ELSE IF NonceProcessed(w, proof.nonce) THEN "Proof already processed"
  ELSE IF Len(proof.validatorSignatures) < w.requiredSignatures
  THEN "Insufficient validator signatures"
  ELSE IF ~verifySignatures(w, proof) THEN "Invalid validator signatures"
  ELSE IF w.totalBridged + proof.amount > MaxUint THEN "Panic(0x11)"
  ELSE IF proof.recipient = ZeroAddress THEN "ERC20InvalidReceiver"
  ELSE "ok"

\* the effects of a mint that does not revert
MintApplied(w, proof) ==
  [w EXCEPT !.processedNonces = @ \cup {proof.nonce},
            !.totalBridged = @ + proof.amount,
            !.balances[proof.recipient] = @ + proof.amount,
            !.events = Append(@, [event |-> "AssetMinted",
                                  user |-> proof.recipient,
                                  amount |-> proof.amount,
                                  nonce |-> proof.nonce])]

\* the registered validators that signed the hash of the proof
SignedBy(w, proof) ==
  {a \in w.validators :
     \E k \in DOMAIN proof.validatorSignatures :
       proof.validatorSignatures[k] = [signer |-> a, over |-> MessageHash(proof)]}

\* a transaction calls mint(proof)
WrapperMint(proof) ==
  /\ lastCall.n < MaxCalls
  /\ LET result == MintOutcome(wrapper, proof)
     IN /\ wrapper' = IF result = "ok" THEN MintApplied(wrapper, proof) ELSE wrapper
        /\ lastCall' = [n |-> lastCall.n + 1, fn |-> "mint", result |-> result,
                        sender |-> Deployer,
                        nonce |-> proof.nonce, amount |-> proof.amount,
                        recipient |-> proof.recipient,
                        signedBy |-> SignedBy(wrapper, proof),
                        signatures |-> Len(proof.validatorSignatures)]
  /\ UNCHANGED <<direction, signerVars, relayerVars, ethVars, casperVars>>

(***************************************************************************)
(* CasperBridgeWrapper.burn and the owner's functions.                     *)
(***************************************************************************)
\* burn: "ok", or the reason of the first revert
BurnOutcome(w, sender, amount, destinationAddress) ==
  IF EnforcedPause(w) THEN "EnforcedPause"
  ELSE IF amount < w.minBurnAmount THEN "Amount below minimum"
  ELSE IF destinationAddress = "" THEN "Invalid destination"
  ELSE IF w.balances[sender] < amount THEN "ERC20InsufficientBalance"
  ELSE IF w.totalBridged < amount \/ w.nonce + 1 > MaxUint THEN "Panic(0x11)"
  ELSE "ok"

\* a burn that emits the nonce and keeps it
BurnAppliedSameNonce(w, sender, amount, destinationAddress) ==
  [w EXCEPT !.balances[sender] = @ - amount,
            !.totalBridged = @ - amount,
            !.events = Append(@, [event |-> "AssetBurned",
                                  user |-> sender,
                                  amount |-> amount,
                                  destinationAddress |-> destinationAddress,
                                  nonce |-> w.nonce])]

\* the effects of a burn that does not revert
BurnApplied(w, sender, amount, destinationAddress) ==
  [w EXCEPT !.balances[sender] = @ - amount,
            !.totalBridged = @ - amount,
            !.nonce = @ + 1,
            !.events = Append(@, [event |-> "AssetBurned",
                                  user |-> sender,
                                  amount |-> amount,
                                  destinationAddress |-> destinationAddress,
                                  nonce |-> w.nonce])]

\* a transaction of sender calls burn(amount, "casper", destinationAddress)
WrapperBurn(sender, amount, destinationAddress) ==
  /\ lastCall.n < MaxCalls
  /\ LET result == BurnOutcome(wrapper, sender, amount, destinationAddress)
     IN /\ wrapper' = IF result = "ok"
                      THEN BurnApplied(wrapper, sender, amount, destinationAddress)
                      ELSE wrapper
        /\ lastCall' = [n |-> lastCall.n + 1, fn |-> "burn", result |-> result,
                        sender |-> sender, amount |-> amount,
                        destinationAddress |-> destinationAddress]
  /\ UNCHANGED <<direction, signerVars, relayerVars, ethVars, casperVars>>

\* onlyOwner reverts
OwnableUnauthorizedAccount(w, sender) == sender # w.owner

\* a removal that leaves validatorList as it is
ListKept(list, validator) == list

\* the loop of removeValidator: the first entry that holds the validator is
\* overwritten with the last entry, and the last entry is popped
RemoveFromList(list, validator) ==
  IF \E i \in DOMAIN list : list[i] = validator
  THEN LET i == CHOOSE k \in DOMAIN list :
                  list[k] = validator /\ \A j \in 1..(k - 1) : list[j] # validator
       IN SubSeq([list EXCEPT ![i] = list[Len(list)]], 1, Len(list) - 1)
  ELSE list

\* addValidator / removeValidator: "ok", or the reason of the first revert
ValidatorOutcome(w, sender, fn, validator) ==
  IF OwnableUnauthorizedAccount(w, sender) THEN "OwnableUnauthorizedAccount"
  ELSE IF fn = "addValidator" /\ validator = ZeroAddress THEN "Invalid validator address"
  ELSE IF fn = "addValidator" /\ validator \in w.validators THEN "Already a validator"
  ELSE IF fn = "removeValidator" /\ validator \notin w.validators THEN "Not a validator"
  ELSE "ok"

\* the effects of addValidator / removeValidator
ValidatorApplied(w, fn, validator) ==
  IF fn = "addValidator"
  THEN [w EXCEPT !.validators = @ \cup {validator},
                 !.validatorList = Append(@, validator),
                 !.events = Append(@, [event |-> "ValidatorAdded",
                                       validator |-> validator])]
  ELSE [w EXCEPT !.validators = @ \ {validator},
                 !.validatorList = RemoveFromList(@, validator),
                 !.events = Append(@, [event |-> "ValidatorRemoved",
                                       validator |-> validator])]

\* a transaction of sender calls addValidator(validator) or
\* removeValidator(validator)
WrapperValidator(sender, fn, validator) ==
  /\ lastCall.n < MaxCalls
  /\ LET result == ValidatorOutcome(wrapper, sender, fn, validator)
     IN /\ wrapper' = IF result = "ok" THEN ValidatorApplied(wrapper, fn, validator)
                      ELSE wrapper
        /\ lastCall' = [n |-> lastCall.n + 1, fn |-> fn, result |-> result,
                        sender |-> sender, validator |-> validator]
  /\ UNCHANGED <<direction, signerVars, relayerVars, ethVars, casperVars>>

\* pause, unpause, setRequiredSignatures, setMinBurnAmount and (Ownable)
\* transferOwnership: "ok", or the reason of the first revert
AdminOutcome(w, sender, fn, arg) ==
  IF OwnableUnauthorizedAccount(w, sender) THEN "OwnableUnauthorizedAccount"
  ELSE IF fn = "pause" /\ w.paused THEN "EnforcedPause"
  ELSE IF fn = "unpause" /\ ~w.paused THEN "ExpectedPause"
  ELSE IF fn = "setRequiredSignatures" /\ ~(arg > 0)
  THEN "Must require at least 1 signature"
  ELSE IF fn = "setRequiredSignatures" /\ ~(arg <= Len(w.validatorList))
  THEN "Requirement exceeds validator count"
  ELSE IF fn = "transferOwnership" /\ arg = ZeroAddress THEN "OwnableInvalidOwner"
  ELSE "ok"

\* the effects of these functions
AdminApplied(w, fn, arg) ==
  CASE fn = "pause" ->     \* _pause() of Pausable emits Paused(msg.sender)
         [w EXCEPT !.paused = TRUE,
                   !.events = Append(@, [event |-> "Paused", account |-> w.owner])]
    [] fn = "unpause" ->   \* _unpause() of Pausable emits Unpaused(msg.sender)
         [w EXCEPT !.paused = FALSE,
                   !.events = Append(@, [event |-> "Unpaused", account |-> w.owner])]
    [] fn = "setRequiredSignatures" ->
         [w EXCEPT !.requiredSignatures = arg,
                   !.events = Append(@, [event |-> "RequiredSignaturesUpdated",
                                         newRequirement |-> arg])]
    [] fn = "setMinBurnAmount" -> [w EXCEPT !.minBurnAmount = arg]
    [] fn = "transferOwnership" -> [w EXCEPT !.owner = arg]

\* a transaction of sender calls one of these functions
WrapperAdmin(sender, fn, arg) ==
  /\ lastCall.n < MaxCalls
  /\ LET result == AdminOutcome(wrapper, sender, fn, arg)
     IN /\ wrapper' = IF result = "ok" THEN AdminApplied(wrapper, fn, arg) ELSE wrapper
        /\ lastCall' = [n |-> lastCall.n + 1, fn |-> fn, result |-> result,
                        sender |-> sender]
  /\ UNCHANGED <<direction, signerVars, relayerVars, ethVars, casperVars>>

\* failed: the last gateway read of the loop was rejected and the loop has
\* not reached its sleep since
EthIdle == [pc |-> "none", cb |-> 0, from |-> 0, retries |-> 0, failed |-> FALSE]

CasperIdle == [pc |-> "none", height |-> 0, i |-> 0, d |-> << >>, failed |-> FALSE]

\* the loop after a gateway read that resolved (ok) or was rejected
ReadSettled(rec, ok) ==
  [rec EXCEPT !.failed = ~ok /\ rec.pc \notin {"sleep", "done"}]

Init ==
  /\ direction \in {"lock", "burn"}
  /\ relayerIsRunning = FALSE
  /\ relayerStopPending = FALSE
  /\ lockListeners = 0
  /\ burnListeners = 0
  /\ ethHead = 0
  /\ ethLogs = << >>
  /\ ethIsRunning = FALSE
  /\ ethContract = FALSE
  /\ ethLastProcessedBlock = 0
  /\ ethLoops = [l \in EthLoopIds |-> EthIdle]
  /\ releaseSubs = << >>
  /\ casperHead = 0
  /\ casperBlocks = [h \in 0..MaxCasperHead |-> << >>]
  /\ casperIsRunning = FALSE
  /\ casperLastProcessedBlock = 0
  /\ processedDeploys = {}
  /\ pendingDeploys = << >>
  /\ casperLoops = [l \in CasperLoopIds |-> CasperIdle]
  /\ mintSubs = << >>
  /\ ethScanned = {}
  /\ ethScannedOk = {}
  /\ casperWatched = {}
  /\ ethStopSeen = FALSE
  /\ casperStopSeen = FALSE
  /\ tracks = 0
  /\ wrapper = WrapperConstructed(Deployer, 1, 1)
  /\ lastCall = NoCall
  /\ signed = << >>

(***************************************************************************)
(* Submission of a release proof (CasperMonitor.submitReleaseProof).       *)
(* A record of releaseSubs: the event it was invoked for, the message that *)
(* was signed, the proof handed to release_cspr, and where the call is:    *)
(* "put" (awaiting putDeploy), "submitted" or "failed".                    *)
(***************************************************************************)
\* history fields of a submission record, read by the properties only: the
\* block that holds the event and the chain's head when the event was emitted
YieldedAt(block, head) == [observedAtBlock |-> block, headAtYield |-> head]

\* the payload EthereumMonitor.processBlocks emits for a log
BurnEventOf(log) ==
  [amount |-> BigIntToString(log.amount),
   destinationAddress |-> log.destinationAddress,
   nonce |-> NatToString(log.nonce),
   blockNumber |-> log.blockNumber,
   txHash |-> log.txHash]

\* the conversion of submitReleaseProof: wei (18 decimals) to motes (9)
AmountInMotes(amount) == BigIntDivPow10(BigIntOf(amount), DecimalShift)

\* a submission that signs the amount in motes and submits the amount in wei
SubmitReleaseProofCallUnconverted(burnEvent) ==
  LET txHash == OrDefault(burnEvent, "txHash", ZeroTxHash)
      fields == [sourceChain |-> "ethereum",
                 sourceTxHash |-> txHash,
                 amount |-> BigIntToString(AmountInMotes(burnEvent.amount)),
                 recipient |-> burnEvent.destinationAddress,
                 nonce |-> burnEvent.nonce]
  IN [source |-> burnEvent.txHash,
      eventAmount |-> burnEvent.amount,
      message |-> fields,
      proof |-> [fields EXCEPT !.amount = BigIntToString(BigIntOf(burnEvent.amount))],
      pc |-> "put"]

\* submitReleaseProof up to its await of putDeploy
SubmitReleaseProofCall(burnEvent) ==
  LET amountInMotes == AmountInMotes(burnEvent.amount)
      txHash == OrDefault(burnEvent, "txHash", ZeroTxHash)
  IN [source |-> burnEvent.txHash,
      eventAmount |-> burnEvent.amount,
      message |-> [sourceChain |-> "ethereum",
                   sourceTxHash |-> txHash,
                   amount |-> BigIntToString(amountInMotes),
                   recipient |-> burnEvent.destinationAddress,
                   nonce |-> burnEvent.nonce],
      proof |-> [sourceChain |-> "ethereum",
                 sourceTxHash |-> txHash,
                 amount |-> BigIntToString(amountInMotes),
                 recipient |-> burnEvent.destinationAddress,
                 nonce |-> burnEvent.nonce],
      pc |-> "put"]

\* emit('AssetBurned', e): every registered listener calls submitReleaseProof
EmitAssetBurned(subs, burnEvent) ==
  subs \o [k \in 1..burnListeners |->
            SubmitReleaseProofCall(burnEvent) @@ YieldedAt(burnEvent.blockNumber, ethHead)]

RECURSIVE EmitBurnLogs(_, _)
\* the emit loop of processBlocks over the logs queryFilter returned
EmitBurnLogs(subs, logs) ==
  IF logs = << >> THEN subs
  ELSE EmitBurnLogs(EmitAssetBurned(subs, BurnEventOf(Head(logs))), Tail(logs))

\* putDeploy(signedDeploy) resolves or rejects
ReleasePut(i, ok) ==
  /\ direction = "burn"
  /\ i \in DOMAIN releaseSubs
  /\ releaseSubs[i].pc = "put"
  /\ releaseSubs' = [releaseSubs EXCEPT ![i].pc = IF ok THEN "submitted" ELSE "failed"]
  /\ UNCHANGED <<direction, signerVars, wrapperVars, relayerVars, casperVars, ethHead, ethLogs, ethIsRunning,
                 ethContract, ethLastProcessedBlock, ethLoops, ethScanned,
                 ethScannedOk, ethStopSeen>>

(***************************************************************************)
(* The Ethereum chain.                                                     *)
(***************************************************************************)
\* the pollEvents loop of EthereumMonitor is polling
EthPolling ==
  ethIsRunning /\ \E l \in EthLoopIds : ethLoops[l].pc \in {"head", "scan", "sleep"}

\* a block is mined; its one transaction burns k times (CasperBridgeWrapper.burn
\* emits AssetBurned with the contract's nonce, then nonce++)
EthMine(k, amount) ==
  /\ direction = "burn"
  /\ ethHead < MaxEthHead
  /\ Len(ethLogs) + k <= MaxBurns
  /\ ethHead' = ethHead + 1
  /\ ethLogs' = ethLogs \o
       [j \in 1..k |-> [blockNumber |-> ethHead + 1,
                        txHash |-> EthTxHash(ethHead + 1),
                        amount |-> amount,
                        destinationAddress |-> CasperRecipient,
                        nonce |-> Len(ethLogs) + j - 1,
                        watched |-> EthPolling]]
  /\ UNCHANGED <<direction, signerVars, wrapperVars, relayerVars, casperVars, ethIsRunning, ethContract,
                 ethLastProcessedBlock, ethLoops, releaseSubs, ethScanned,
                 ethScannedOk, ethStopSeen>>

(***************************************************************************)
(* EthereumMonitor.                                                        *)
(***************************************************************************)
\* a slot of ethLoops no start() call or loop occupies
EthFree(l) == ethLoops[l].pc \in {"none", "done", "startFailed"}

\* pollEvents at its `while (this.isRunning)`: the next getBlockNumber is
\* awaited, or the loop ends
EthLoopEntry(running) == IF running THEN "head" ELSE "done"

\* the free slot a start() call takes
EthSlot == CHOOSE l \in EthLoopIds : EthFree(l) /\ \A k \in EthLoopIds : EthFree(k) => l <= k

\* start() up to its first await of getBlockNumber; the call and the loop it
\* spawns are followed in the "burn" direction
EthMonitorStart ==
  /\ ethContract' = TRUE
  /\ ethIsRunning' = TRUE
  /\ ethLoops' = IF direction = "burn"
                 THEN [ethLoops EXCEPT ![EthSlot] =
                         [pc |-> "startGet", cb |-> 0, from |-> 0,
                          retries |-> StartRetries, failed |-> FALSE]]
                 ELSE ethLoops

\* stop()
EthMonitorStop ==
  /\ ethIsRunning' = FALSE
  /\ ethStopSeen' = TRUE

\* the getBlockNumber of start() resolves (ok) or rejects; after StartRetries
\* rejections start() throws, otherwise it sleeps and retries
EthStartGetBlock(l, ok) ==
  /\ direction = "burn"
  /\ ethLoops[l].pc = "startGet"
  /\ IF ok
     THEN /\ ethLastProcessedBlock' = ethHead
          /\ ethLoops' = [ethLoops EXCEPT ![l].pc = EthLoopEntry(ethIsRunning),
                                          ![l].retries = 0]
     ELSE /\ ethLastProcessedBlock' = ethLastProcessedBlock
          /\ ethLoops' = [ethLoops EXCEPT
                            ![l].retries = @ - 1,
                            ![l].pc = IF ethLoops[l].retries - 1 = 0
                                      THEN "startFailed" ELSE "startGet"]
  /\ UNCHANGED <<direction, signerVars, wrapperVars, relayerVars, casperVars, ethHead, ethLogs, ethIsRunning,
                 ethContract, releaseSubs, ethScanned, ethScannedOk, ethStopSeen>>

\* a catch block that gives up: the loop ends with the first failed tick
EthPollCatchEnds(running) == "done"

\* what the catch block of pollEvents does with a failed tick: it logs, and
\* the loop goes on to its next `while` test
EthPollCatch(running) == EthLoopEntry(running)

\* pollEvents: getBlockNumber resolves or rejects
EthGetBlockNumber(l, ok) ==
  /\ direction = "burn"
  /\ ethLoops[l].pc = "head"
  /\ IF ok
     THEN LET currentBlock == ethHead
              confirmationBlock == currentBlock - EthConfirmationBlocks
          IN IF confirmationBlock > ethLastProcessedBlock
             THEN ethLoops' = [ethLoops EXCEPT
                                 ![l] = [pc |-> "scan", cb |-> confirmationBlock,
                                         from |-> ethLastProcessedBlock + 1,
                                         retries |-> 0, failed |-> FALSE]]
             ELSE ethLoops' = [ethLoops EXCEPT ![l].pc = "sleep", ![l].failed = FALSE]
     ELSE ethLoops' = [ethLoops EXCEPT ![l] =
                         ReadSettled([@ EXCEPT !.pc = EthPollCatch(ethIsRunning)], FALSE)]
  /\ UNCHANGED <<direction, signerVars, wrapperVars, relayerVars, casperVars, ethHead, ethLogs, ethIsRunning,
                 ethContract, ethLastProcessedBlock, releaseSubs, ethScanned,
                 ethScannedOk, ethStopSeen>>

\* a chunk of MAX_BLOCKS_PER_QUERY + 1 blocks
ChunkToInclusive(currentFrom, toBlock) == Min(currentFrom + MAX_BLOCKS_PER_QUERY, toBlock)

\* the upper end of the chunk processBlocks queries next
ChunkTo(currentFrom, toBlock) == Min(currentFrom + MAX_BLOCKS_PER_QUERY - 1, toBlock)

\* the logs queryFilter(filter, from, to) returns
LogsIn(from, to) == SelectSeq(ethLogs, LAMBDA e : e.blockNumber \in from..to)

\* lastProcessedBlock after processBlocks(from, confirmationBlock) returned
CursorAfterScan(cursor, confirmationBlock) == confirmationBlock

\* processBlocks: queryFilter for the chunk resolves or rejects; a rejection is
\* logged and the next chunk is queried; after the last chunk pollEvents sets
\* lastProcessedBlock and sleeps
EthQueryFilter(l, ok) ==
  /\ direction = "burn"
  /\ ethLoops[l].pc = "scan"
  /\ LET currentFrom == ethLoops[l].from
         toBlock == ethLoops[l].cb
         currentTo == ChunkTo(currentFrom, toBlock)
         events == LogsIn(currentFrom, currentTo)
     IN /\ releaseSubs' = IF ok THEN EmitBurnLogs(releaseSubs, events) ELSE releaseSubs
        /\ Len(releaseSubs') <= MaxSubs
        /\ ethScanned' = ethScanned \cup (currentFrom..currentTo)
        /\ ethScannedOk' = IF ok THEN ethScannedOk \cup (currentFrom..currentTo)
                           ELSE ethScannedOk
        /\ IF currentTo + 1 <= toBlock
           THEN /\ ethLoops' = [ethLoops EXCEPT ![l] =
                                   ReadSettled([@ EXCEPT !.from = currentTo + 1], ok)]
                /\ ethLastProcessedBlock' = ethLastProcessedBlock
           ELSE /\ ethLoops' = [ethLoops EXCEPT ![l] =
                                   ReadSettled([@ EXCEPT !.pc = "sleep"], ok)]
                /\ ethLastProcessedBlock' =
                     CursorAfterScan(ethLastProcessedBlock, toBlock)
  /\ UNCHANGED <<direction, signerVars, wrapperVars, relayerVars, casperVars, ethHead, ethLogs, ethIsRunning,
                 ethContract, ethStopSeen>>

\* the sleep(pollInterval) of pollEvents resolves
EthWake(l) ==
  /\ direction = "burn"
  /\ ethLoops[l].pc = "sleep"
  /\ ethLoops' = [ethLoops EXCEPT ![l].pc = EthLoopEntry(ethIsRunning)]
  /\ UNCHANGED <<direction, signerVars, wrapperVars, relayerVars, casperVars, ethHead, ethLogs, ethIsRunning,
                 ethContract, ethLastProcessedBlock, releaseSubs, ethScanned,
                 ethScannedOk, ethStopSeen>>

(***************************************************************************)
(* The Casper chain and what its node returns.                             *)
(***************************************************************************)
\* config.vaultContract, 'hash-' followed by the contract hash
VaultContract == [prefixed |-> TRUE, hex |-> "bb63d7f3"]

\* vaultContract.replace('hash-', '')
StripHashPrefix(c) == [prefixed |-> FALSE, hex |-> c.hex]

\* two deploy hashes (hex digits); they agree on their first 8 digits
DeployA == <<0, 0, 0, 0, 0, 0, 1, 10, 3>>

DeployB == <<0, 0, 0, 0, 0, 0, 1, 10, 9>>

Deploys == {DeployA, DeployB}

\* 5,000,000,000 motes
FiveCsprMotes == <<5>> \o Zeros(9)

LockArgs == [destination_chain |-> "ethereum",
             destination_address |-> EthRecipient,
             amount |-> FiveCsprMotes]

\* deploys that call lock_cspr on the vault with one argument missing
DeployNoAmount == <<0, 0, 0, 0, 0, 0, 1, 11, 0>>

DeployNoChain == <<0, 0, 0, 0, 0, 0, 1, 11, 1>>

DeployNoAddress == <<0, 0, 0, 0, 0, 0, 1, 11, 2>>

MalformedDeploys == {DeployNoAmount, DeployNoChain, DeployNoAddress}

\* the runtime args of the session of d
ArgsOf(d) ==
  CASE d = DeployNoAmount -> [destination_chain |-> "ethereum",
                              destination_address |-> EthRecipient]
    [] d = DeployNoChain -> [destination_address |-> EthRecipient,
                             amount |-> FiveCsprMotes]
    [] d = DeployNoAddress -> [destination_chain |-> "ethereum",
                               amount |-> FiveCsprMotes]
    [] OTHER -> LockArgs

\* a deploy whose execution failed, a deploy that calls lock_cspr on another
\* contract, and a deploy that calls another entry point of the vault
DeployFailed == <<0, 0, 0, 0, 0, 0, 1, 12, 0>>

DeployOtherContract == <<0, 0, 0, 0, 0, 0, 1, 12, 1>>

DeployOtherEntry == <<0, 0, 0, 0, 0, 0, 1, 12, 2>>

\* The deploy object getDeploy returns for d.  `camel` is
\* session.storedContractByHash and `pascal` is session.StoredContractByHash,
\* each absent (<< >>) or present; which of the two spellings the client
\* library fills in is not decided by this repository; the deploys here carry
\* both, so that both readers find what they look for.  `success` is the
\* execution result once the deploy is executed.
DeployObject(d) ==
  LET hash == IF d = DeployOtherContract
              THEN [prefixed |-> TRUE, hex |-> "0c0ffee0"] ELSE VaultContract
      entry_point == IF d = DeployOtherEntry THEN "release_cspr" ELSE "lock_cspr"
  IN [header |-> [account |-> "01ab"],
      success |-> d # DeployFailed,
      camel |-> <<[hash |-> hash, entry_point |-> entry_point]>>,
      pascal |-> <<[hash |-> StripHashPrefix(hash),
                    entry_point |-> entry_point,
                    args |-> ArgsOf(d)]>>]

\* the height of the block that holds d, or -1
IncludedAt(d) ==
  IF \E h \in 0..casperHead : \E j \in DOMAIN casperBlocks[h] : casperBlocks[h][j] = d
  THEN CHOOSE h \in 0..casperHead : \E j \in DOMAIN casperBlocks[h] : casperBlocks[h][j] = d
  ELSE -1

\* the pollEvents loop of CasperMonitor is polling
CasperPolling ==
  casperIsRunning /\
  \E l \in CasperLoopIds : casperLoops[l].pc \in {"latest", "block", "deploy", "pending", "sleep"}

\* a block with the deploys ds is produced
CasperMine(ds) ==
  /\ direction = "lock"
  /\ casperHead < MaxCasperHead
  /\ \A j \in DOMAIN ds : IncludedAt(ds[j]) = -1
  /\ casperHead' = casperHead + 1
  /\ casperBlocks' = [casperBlocks EXCEPT ![casperHead + 1] = ds]
  /\ casperWatched' = IF CasperPolling
                      THEN casperWatched \cup {ds[j] : j \in DOMAIN ds}
                      ELSE casperWatched
  /\ UNCHANGED <<direction, signerVars, wrapperVars, relayerVars, ethVars, casperIsRunning,
                 casperLastProcessedBlock, processedDeploys, pendingDeploys,
                 casperLoops, mintSubs, casperStopSeen, tracks>>

(***************************************************************************)
(* Submission of a mint proof (EthereumMonitor.submitMintProof).  A record *)
(* of mintSubs: "mint" (contract.mint(proof) is populating the             *)
(* transaction), "send" (contract.mint(proof) is broadcasting it), "wait"  *)
(* (awaiting tx.wait()), "confirmed" or "failed".  txNonce is the account  *)
(* nonce the transaction was populated with, << >> before; sent tells that *)
(* the node accepted the transaction.                                      *)
(***************************************************************************)
\* submitMintProof up to its await of contract.mint(proof), the signature made
SubmitMintProofCall(lockEvent) ==
  LET sourceTxHash == OrDefault(lockEvent, "txHash", ZeroTxHash)
  IN [source |-> lockEvent.sourceTxHash,
      eventAmount |-> lockEvent.amount,
      message |-> [sourceChain |-> "casper",
                   sourceTxHash |-> sourceTxHash,
                   amount |-> lockEvent.amount,
                   recipient |-> lockEvent.destinationAddress,
                   nonce |-> NatToString(lockEvent.nonce)],
      proof |-> [sourceChain |-> "casper",
                 sourceTxHash |-> sourceTxHash,
                 amount |-> lockEvent.amount,
                 recipient |-> lockEvent.destinationAddress,
                 nonce |-> lockEvent.nonce],
      txNonce |-> << >>,
      sent |-> FALSE,
      pc |-> "mint"]

\* emit('AssetLocked', e): every registered listener calls submitMintProof,
\* which returns at once while the contract is not initialized
EmitAssetLocked(subs, lockEvent, height) ==
  IF ethContract
  THEN subs \o [k \in 1..lockListeners |->
                  SubmitMintProofCall(lockEvent) @@ YieldedAt(height, casperHead)]
  ELSE subs

\* the transaction count of the wallet's account, pending ones included
AccountNonce(subs) == Cardinality({i \in DOMAIN subs : subs[i].sent})

\* contract.mint(proof) called on a contract whose runner is the plain Wallet:
\* the transaction is populated (gas estimate, and the nonce read from the
\* node as the account's pending transaction count), or the call rejects (the
\* estimate reverted, the node was unreachable)
MintPopulate(i, ok) ==
  /\ direction = "lock"
  /\ i \in DOMAIN mintSubs
  /\ mintSubs[i].pc = "mint"
  /\ mintSubs' = IF ok
                 THEN [mintSubs EXCEPT ![i].pc = "send",
                                       ![i].txNonce = <<AccountNonce(mintSubs)>>]
                 ELSE [mintSubs EXCEPT ![i].pc = "failed"]
  /\ UNCHANGED <<direction, signerVars, wrapperVars, relayerVars, ethVars, casperHead, casperBlocks,
                 casperIsRunning, casperLastProcessedBlock, processedDeploys,
                 pendingDeploys, casperLoops, casperWatched,
                 casperStopSeen, tracks>>

\* the node takes a transaction whose nonce is the account's next one
NodeAccepts(txNonce, subs) == txNonce = <<AccountNonce(subs)>>

\* contract.mint(proof) resolves with the sent transaction, or rejects (the
\* node refused the transaction, or was unreachable)
MintSend(i, ok) ==
  /\ direction = "lock"
  /\ i \in DOMAIN mintSubs
  /\ mintSubs[i].pc = "send"
  /\ mintSubs' = IF ok /\ NodeAccepts(mintSubs[i].txNonce, mintSubs)
                 THEN [mintSubs EXCEPT ![i].pc = "wait", ![i].sent = TRUE]
                 ELSE [mintSubs EXCEPT ![i].pc = "failed"]
  /\ UNCHANGED <<direction, signerVars, wrapperVars, relayerVars, ethVars, casperHead, casperBlocks,
                 casperIsRunning, casperLastProcessedBlock, processedDeploys,
                 pendingDeploys, casperLoops, casperWatched,
                 casperStopSeen, tracks>>

\* tx.wait() resolves with the receipt, or rejects (the transaction reverted)
MintWait(i, ok) ==
  /\ direction = "lock"
  /\ i \in DOMAIN mintSubs
  /\ mintSubs[i].pc = "wait"
  /\ mintSubs' = [mintSubs EXCEPT ![i].pc = IF ok THEN "confirmed" ELSE "failed"]
  /\ UNCHANGED <<direction, signerVars, wrapperVars, relayerVars, ethVars, casperHead, casperBlocks,
                 casperIsRunning, casperLastProcessedBlock, processedDeploys,
                 pendingDeploys, casperLoops, casperWatched,
                 casperStopSeen, tracks>>

(***************************************************************************)
(* CasperMonitor: decoding.  A decoder returns << >> for null and <<e>>    *)
(* for the event e.                                                        *)
(***************************************************************************)
\* a decoder that issues the nonce from a counter of the events forwarded so
\* far, instead of deriving it from the deploy hash
LockEventOfArgsCounted(args, deploy, deployHash) ==
  <<[sourceChain |-> "casper",
     sourceTxHash |-> deployHash,
     amount |-> args.amount,
     destinationChain |-> args.destination_chain,
     destinationAddress |-> args.destination_address,
     nonce |-> Len(mintSubs),
     sender |-> deploy.header.account]>>

\* a decoder without the completeness test: a missing argument stays ''
LockEventOfArgsUnchecked(args, deploy, deployHash) ==
  <<[sourceChain |-> "casper",
     sourceTxHash |-> deployHash,
     amount |-> IF "amount" \in DOMAIN args THEN args.amount ELSE << >>,
     destinationChain |-> IF "destination_chain" \in DOMAIN args
                          THEN args.destination_chain ELSE "",
     destinationAddress |-> IF "destination_address" \in DOMAIN args
                            THEN args.destination_address ELSE "",
     nonce |-> ParseNonce(deployHash),
     sender |-> deploy.header.account]>>

\* the loop over the args array, then the completeness test and the nonce
LockEventOfArgs(args, deploy, deployHash) ==
  LET destinationChain == IF "destination_chain" \in DOMAIN args
                          THEN args.destination_chain ELSE ""
      destinationAddress == IF "destination_address" \in DOMAIN args
                            THEN args.destination_address ELSE ""
      amount == IF "amount" \in DOMAIN args THEN args.amount ELSE << >>
  IN IF destinationChain = "" \/ destinationAddress = "" \/ amount = << >>
     THEN << >>
     ELSE <<[sourceChain |-> "casper",
             sourceTxHash |-> deployHash,
             amount |-> amount,
             destinationChain |-> destinationChain,
             destinationAddress |-> destinationAddress,
             nonce |-> ParseNonce(deployHash),
             sender |-> deploy.header.account]>>

\* parseLockEvent (block scanning): reads session.StoredContractByHash.args
parseLockEvent(deploy, deployHash) ==
  IF deploy.pascal = << >> THEN << >>
  ELSE LockEventOfArgs(deploy.pascal[1].args, deploy, deployHash)

\* parseLockEventFromDeploy (tracked deploys)
parseLockEventFromDeploy(deploy, deployHash) ==
  IF deploy.pascal = << >> THEN << >>
  ELSE IF deploy.pascal[1].hash # StripHashPrefix(VaultContract)
          \/ deploy.pascal[1].entry_point # "lock_cspr"
       THEN << >>
       ELSE LockEventOfArgs(deploy.pascal[1].args, deploy, deployHash)

(***************************************************************************)
(* CasperMonitor: the polling loop.  A loop record holds pc ("latest":     *)
(* awaiting getLatestBlockInfo, "block": awaiting getBlockInfo, "deploy":  *)
(* awaiting getDeploy for deploy i of the block at `height`, "pending":    *)
(* awaiting getDeploy for the tracked deploy d, "sleep", "done").  For     *)
(* "pending", i counts the entries of pendingDeploys the Set iterator has  *)
(* passed; a Set iterator is live, so a delete before it moves it back.    *)
(***************************************************************************)
CasperFree(l) == casperLoops[l].pc \in {"none", "done"}

\* pollEvents at its `while (this.isRunning)`
CasperLoopEntry(running) == IF running THEN "latest" ELSE "done"

\* the free slot a start() call takes
CasperSlot ==
  CHOOSE l \in CasperLoopIds :
    CasperFree(l) /\ \A k \in CasperLoopIds : CasperFree(k) => l <= k

\* start(): isRunning = true, then pollEvents() runs to its first await; the
\* loop is followed in the "lock" direction
CasperMonitorStart ==
  /\ casperIsRunning' = TRUE
  /\ casperLoops' = IF direction = "lock"
                    THEN [casperLoops EXCEPT ![CasperSlot] =
                            [CasperIdle EXCEPT !.pc = CasperLoopEntry(TRUE)]]
                    ELSE casperLoops

\* stop()
CasperMonitorStop ==
  /\ casperIsRunning' = FALSE
  /\ casperStopSeen' = TRUE

PosOf(seq, d) ==
  IF \E j \in DOMAIN seq : seq[j] = d
  THEN CHOOSE j \in DOMAIN seq : seq[j] = d
  ELSE 0

\* Set.delete(d) on the insertion-ordered set
SetDelete(seq, d) == SelectSeq(seq, LAMBDA x : x # d)

\* Set.add(d)
SetAdd(seq, d) == IF PosOf(seq, d) > 0 THEN seq ELSE Append(seq, d)

\* the live iterators over pendingDeploys after the entry at position p left
AfterDelete(loops, p) ==
  [l \in CasperLoopIds |->
     IF p > 0 /\ loops[l].pc = "pending" /\ loops[l].i >= p
     THEN [loops[l] EXCEPT !.i = @ - 1] ELSE loops[l]]

\* the iterator of checkPendingDeploys moves on: the next tracked deploy is
\* queried, or the function returns and pollEvents sleeps
PendingNext(rec, pending) ==
  IF rec.i < Len(pending)
  THEN [rec EXCEPT !.pc = "pending", !.d = pending[rec.i + 1], !.i = rec.i + 1]
  ELSE [rec EXCEPT !.pc = "sleep", !.d = << >>, !.i = 0]

\* checkPendingDeploys is entered
PendingEntry(rec, pending) == PendingNext([rec EXCEPT !.i = 0], pending)

\* the `processedDeploys.has(deployHash)` test of checkBlockForLockEvents
SkipProcessed(deployHash, processed) == deployHash \in processed

\* the for loop of checkBlockForLockEvents after deploy i: the next deploy not
\* yet processed is checked, or checkPendingDeploys is entered
BlockNext(rec, hashes, processed, pending) ==
  LET rest == {j \in DOMAIN hashes : j > rec.i /\ ~SkipProcessed(hashes[j], processed)}
  IN IF rest # {}
     THEN [rec EXCEPT !.pc = "deploy",
                      !.i = CHOOSE j \in rest : \A k \in rest : j <= k]
     ELSE PendingEntry(rec, pending)

\* trackDeploy(deployHash), called by /api/submit-deploy and /api/reprocess-deploy
TrackDeploy(d) ==
  /\ direction = "lock"
  /\ tracks < MaxTracks
  /\ tracks' = tracks + 1
  /\ pendingDeploys' = SetAdd(pendingDeploys, d)
  /\ UNCHANGED <<direction, signerVars, wrapperVars, relayerVars, ethVars, casperHead, casperBlocks,
                 casperIsRunning, casperLastProcessedBlock, processedDeploys,
                 casperLoops, mintSubs, casperWatched, casperStopSeen>>

\* pollEvents: getLatestBlockInfo resolves or rejects (catch: log and sleep)
CasperGetLatestBlockInfo(l, ok) ==
  /\ direction = "lock"
  /\ casperLoops[l].pc = "latest"
  /\ casperLoops' = [casperLoops EXCEPT ![l] =
                       IF ok THEN [@ EXCEPT !.pc = "block", !.height = casperHead]
                       ELSE ReadSettled([@ EXCEPT !.pc = "sleep"], FALSE)]
  /\ UNCHANGED <<direction, signerVars, wrapperVars, relayerVars, ethVars, casperHead, casperBlocks,
                 casperIsRunning, casperLastProcessedBlock, processedDeploys,
                 pendingDeploys, mintSubs, casperWatched,
                 casperStopSeen, tracks>>

\* checkBlockForLockEvents: getBlockInfo resolves or rejects (caught there)
CasperGetBlockInfo(l, ok) ==
  /\ direction = "lock"
  /\ casperLoops[l].pc = "block"
  /\ LET rec == [casperLoops[l] EXCEPT !.i = 0]
         hashes == casperBlocks[rec.height]
     IN casperLoops' = [casperLoops EXCEPT ![l] =
                          IF ok
                          THEN BlockNext(rec, hashes, processedDeploys, pendingDeploys)
                          ELSE ReadSettled(PendingEntry(rec, pendingDeploys), FALSE)]
  /\ UNCHANGED <<direction, signerVars, wrapperVars, relayerVars, ethVars, casperHead, casperBlocks,
                 casperIsRunning, casperLastProcessedBlock, processedDeploys,
                 pendingDeploys, mintSubs, casperWatched,
                 casperStopSeen, tracks>>

\* checkDeployForLockEvent: the event it emits for the deploy (<< >>: none)
BlockLockEvent(deploy, deployHash) ==
  IF ~deploy.success THEN << >>
  ELSE IF deploy.camel = << >> THEN << >>
  ELSE IF deploy.camel[1].hash # VaultContract
          \/ deploy.camel[1].entry_point # "lock_cspr" THEN << >>
  ELSE parseLockEvent(deploy, deployHash)

\* checkDeployForLockEvent: whether the deploy is added to processedDeploys
BlockMarksProcessed(deploy, deployHash) ==
  \/ ~deploy.success
  \/ deploy.camel = << >>
  \/ deploy.camel[1].hash # VaultContract
  \/ deploy.camel[1].entry_point # "lock_cspr"
  \/ parseLockEvent(deploy, deployHash) # << >>

\* a record that forgets what it held
MarkProcessedOnly(processed, deployHash) == {deployHash}

\* this.processedDeploys.add(deployHash)
MarkProcessed(processed, deployHash) == processed \cup {deployHash}

\* checkDeployForLockEvent: getDeploy resolves or rejects (caught there)
CasperCheckDeploy(l, ok) ==
  /\ direction = "lock"
  /\ casperLoops[l].pc = "deploy"
  /\ LET rec == casperLoops[l]
         hashes == casperBlocks[rec.height]
         deployHash == hashes[rec.i]
         deploy == DeployObject(deployHash)
         ev == IF ok THEN BlockLockEvent(deploy, deployHash) ELSE << >>
         processed == IF ok /\ BlockMarksProcessed(deploy, deployHash)
                      THEN MarkProcessed(processedDeploys, deployHash)
                      ELSE processedDeploys
     IN /\ mintSubs' = IF ev # << >> THEN EmitAssetLocked(mintSubs, ev[1], rec.height)
                       ELSE mintSubs
        /\ Len(mintSubs') <= MaxSubs
        /\ processedDeploys' = processed
        /\ casperLoops' = [casperLoops EXCEPT ![l] =
                             ReadSettled(BlockNext(rec, hashes, processed, pendingDeploys),
                                         ok)]
  /\ UNCHANGED <<direction, signerVars, wrapperVars, relayerVars, ethVars, casperHead, casperBlocks,
                 casperIsRunning, casperLastProcessedBlock, pendingDeploys,
                 casperWatched, casperStopSeen, tracks>>

\* a tracked deploy that leaves pendingDeploys with the first answer
PendingRemovesAlways(executed) == TRUE

\* checkPendingDeploys: whether a tracked deploy leaves pendingDeploys once
\* getDeploy answered: it stays while no execution result is there
PendingRemoves(executed) == executed

\* checkPendingDeploys: getDeploy for the tracked deploy resolves or rejects
CasperCheckPending(l, ok) ==
  /\ direction = "lock"
  /\ casperLoops[l].pc = "pending"
  /\ LET rec == casperLoops[l]
         deployHash == rec.d
         deploy == DeployObject(deployHash)
         executed == IncludedAt(deployHash) # -1
         ev == IF ok /\ executed /\ deploy.success
               THEN parseLockEventFromDeploy(deploy, deployHash) ELSE << >>
         removed == ok /\ PendingRemoves(executed)
         pending == IF removed THEN SetDelete(pendingDeploys, deployHash)
                    ELSE pendingDeploys
         loops == IF removed THEN AfterDelete(casperLoops, PosOf(pendingDeploys, deployHash))
                  ELSE casperLoops
     IN /\ mintSubs' = IF ev # << >> THEN EmitAssetLocked(mintSubs, ev[1], IncludedAt(deployHash))
                       ELSE mintSubs
        /\ Len(mintSubs') <= MaxSubs
        /\ processedDeploys' = IF ev # << >> THEN MarkProcessed(processedDeploys, deployHash)
                               ELSE processedDeploys
        /\ pendingDeploys' = pending
        /\ casperLoops' = [loops EXCEPT ![l] =
                             ReadSettled(PendingNext(loops[l], pending), ok)]
  /\ UNCHANGED <<direction, signerVars, wrapperVars, relayerVars, ethVars, casperHead, casperBlocks,
                 casperIsRunning, casperLastProcessedBlock, casperWatched,
                 casperStopSeen, tracks>>

\* the sleep(pollInterval) of pollEvents resolves
CasperWake(l) ==
  /\ direction = "lock"
  /\ casperLoops[l].pc = "sleep"
  /\ casperLoops' = [casperLoops EXCEPT ![l].pc = CasperLoopEntry(casperIsRunning)]
  /\ UNCHANGED <<direction, signerVars, wrapperVars, relayerVars, ethVars, casperHead, casperBlocks,
                 casperIsRunning, casperLastProcessedBlock, processedDeploys,
                 pendingDeploys, mintSubs, casperWatched,
                 casperStopSeen, tracks>>

(***************************************************************************)
(* BridgeRelayer.                                                          *)
(***************************************************************************)
\* start(): returns at once when already running; otherwise registers the two
\* event handlers and starts both monitors
RelayerStart ==
  /\ ~relayerIsRunning
  /\ lockListeners < MaxStarts
  /\ direction = "burn" => \E l \in EthLoopIds : EthFree(l)
  /\ direction = "lock" => \E l \in CasperLoopIds : CasperFree(l)
  /\ relayerIsRunning' = TRUE
  /\ lockListeners' = lockListeners + 1
  /\ burnListeners' = burnListeners + 1
  /\ CasperMonitorStart
  /\ EthMonitorStart
  /\ UNCHANGED <<direction, signerVars, wrapperVars, relayerStopPending, ethHead, ethLogs,
                 ethLastProcessedBlock, releaseSubs, ethScanned, ethScannedOk, ethStopSeen, casperHead, casperBlocks,
                 casperLastProcessedBlock, processedDeploys, pendingDeploys,
                 mintSubs, casperWatched, casperStopSeen, tracks>>

\* stop() up to its await of httpServer.close
RelayerStop ==
  /\ relayerIsRunning
  /\ ~relayerStopPending
  /\ relayerIsRunning' = FALSE
  /\ relayerStopPending' = TRUE
  /\ UNCHANGED <<direction, signerVars, wrapperVars, lockListeners, burnListeners, ethVars, casperVars>>

\* stop() after the HTTP server closed: both monitors are stopped
RelayerStopClosed ==
  /\ relayerStopPending
  /\ relayerStopPending' = FALSE
  /\ CasperMonitorStop
  /\ EthMonitorStop
  /\ UNCHANGED <<direction, signerVars, wrapperVars, relayerIsRunning, lockListeners, burnListeners,
                 ethHead, ethLogs, ethContract, ethLastProcessedBlock, ethLoops,
                 releaseSubs, ethScanned, ethScannedOk,
                 casperHead, casperBlocks, casperLastProcessedBlock,
                 processedDeploys, pendingDeploys, casperLoops, mintSubs,
                 casperWatched, tracks>>

(***************************************************************************)
(* The specification.                                                      *)
(***************************************************************************)
BlockBodies == {<< >>, <<DeployA>>, <<DeployB>>, <<DeployA, DeployB>>}

Next ==
  \/ RelayerStart
  \/ RelayerStop
  \/ RelayerStopClosed
  \/ \E k \in 0..MaxBurns : \E amount \in EthAmounts :
       (k = 0 => amount = DustWei) /\ EthMine(k, amount)
  \/ \E l \in EthLoopIds : \E ok \in BOOLEAN : EthStartGetBlock(l, ok)
  \/ \E l \in EthLoopIds : \E ok \in BOOLEAN : EthGetBlockNumber(l, ok)
  \/ \E l \in EthLoopIds : \E ok \in BOOLEAN : EthQueryFilter(l, ok)
  \/ \E l \in EthLoopIds : EthWake(l)
  \/ \E i \in 1..MaxSubs : \E ok \in BOOLEAN : ReleasePut(i, ok)
  \/ \E ds \in BlockBodies : CasperMine(ds)
  \/ \E d \in Deploys : TrackDeploy(d)
  \/ \E l \in CasperLoopIds : \E ok \in BOOLEAN : CasperGetLatestBlockInfo(l, ok)
  \/ \E l \in CasperLoopIds : \E ok \in BOOLEAN : CasperGetBlockInfo(l, ok)
  \/ \E l \in CasperLoopIds : \E ok \in BOOLEAN : CasperCheckDeploy(l, ok)
  \/ \E l \in CasperLoopIds : \E ok \in BOOLEAN : CasperCheckPending(l, ok)
  \/ \E l \in CasperLoopIds : CasperWake(l)
  \/ \E i \in 1..MaxSubs : \E ok \in BOOLEAN : MintPopulate(i, ok)
  \/ \E i \in 1..MaxSubs : \E ok \in BOOLEAN : MintSend(i, ok)
  \/ \E i \in 1..MaxSubs : \E ok \in BOOLEAN : MintWait(i, ok)

Spec == Init /\ [][Next]_vars

(***************************************************************************)
(* Properties.                                                             *)
(***************************************************************************)
\* C1: for every source transaction id, submitMintProof (Casper locks) and
\* submitReleaseProof (Ethereum burns) are invoked at most once within a run,
\* however often the watcher observes the transaction.
C1_SubmitOncePerSource ==
  /\ \A i, j \in DOMAIN mintSubs :
       mintSubs[i].source = mintSubs[j].source => i = j
  /\ \A i, j \in DOMAIN releaseSubs :
       releaseSubs[i].source = releaseSubs[j].source => i = j

\* the Ethereum watcher's cursor is past the block of the log and nothing
\* stopped the watcher, so that no later tick reads the block again
EthPassed(log) == ~ethStopSeen /\ log.blockNumber <= ethLastProcessedBlock

\* a polling loop of the Casper watcher has read a latest block above the one
\* that holds d; the block scan reads the latest block only, and d is not
\* tracked
CasperPassed(d) ==
  /\ ~casperStopSeen
  /\ PosOf(pendingDeploys, d) = 0
  /\ \E l \in CasperLoopIds :
       ~CasperFree(l) /\ casperLoops[l].height > IncludedAt(d)

\* C2: every lock or burn that lands in a block while the watcher is running
\* is yielded by that chain's watcher; once the watcher has moved past its
\* block (which is when no later poll reads it) the event has been emitted,
\* also when several blocks were produced between two polls.
C2_WatchedEventsYielded ==
  /\ \A k \in DOMAIN ethLogs :
       (ethLogs[k].watched /\ EthPassed(ethLogs[k]))
         => \E i \in DOMAIN releaseSubs :
              /\ releaseSubs[i].source = ethLogs[k].txHash
              /\ releaseSubs[i].message.nonce = NatToString(ethLogs[k].nonce)
  /\ \A d \in casperWatched :
       CasperPassed(d) => \E i \in DOMAIN mintSubs : mintSubs[i].source = d

\* C3: a watcher yields events only from positions at or below
\* head - confirmationDepth, on Ethereum and on Casper.
C3_YieldsOnlyConfirmed ==
  /\ \A i \in DOMAIN releaseSubs :
       releaseSubs[i].observedAtBlock
         <= releaseSubs[i].headAtYield - EthConfirmationBlocks
  /\ \A i \in DOMAIN mintSubs :
       mintSubs[i].observedAtBlock
         <= mintSubs[i].headAtYield - CasperConfirmationBlocks

\* loop l of the Ethereum watcher takes a step of its tick: its getBlockNumber
\* or its queryFilter resolves or rejects
EthTickStep(l) ==
  ethLoops[l].pc \in {"head", "scan"} /\ ethLoops'[l] # ethLoops[l]

\* the blocks the queryFilter call loop l awaits covers
EthChunk(l) == ethLoops[l].from .. ChunkTo(ethLoops[l].from, ethLoops[l].cb)

\* C4: each tick of the Ethereum watcher scans exactly (cursor, head -
\* confirmationDepth] when that range is non-empty, then sets the cursor to its
\* upper bound, and scans nothing otherwise; no block is scanned twice.
C4_TicksScanDisjointRanges ==
  [][\A l \in EthLoopIds :
       /\ (ethLoops[l].pc = "head" /\ ethLoops'[l].pc = "scan")
            => /\ ethLoops'[l].from = ethLastProcessedBlock + 1
               /\ ethLoops'[l].cb = ethHead - EthConfirmationBlocks
               /\ ethLoops'[l].from <= ethLoops'[l].cb
       /\ (ethLoops[l].pc = "head" /\ ethLoops'[l].pc = "sleep")
            => ethHead - EthConfirmationBlocks <= ethLastProcessedBlock
       /\ (ethLoops[l].pc = "scan" /\ EthTickStep(l))
            => EthChunk(l) \cap ethScanned = {}
       /\ (ethLoops[l].pc = "scan" /\ ethLoops'[l].pc = "sleep")
            => ethLastProcessedBlock' = ethLoops[l].cb
    ]_vars

\* C5: the cursor (lastProcessedBlock) of a watcher never decreases, over any
\* interleaving of ticks, gateway failures, stop() and start().
C5_CursorNeverDecreases ==
  [][/\ ethLastProcessedBlock' >= ethLastProcessedBlock
     /\ casperLastProcessedBlock' >= casperLastProcessedBlock]_vars

\* C6: when a gateway read of a tick fails, the tick does not advance the
\* cursor past a position that was not scanned successfully.
C6_CursorStaysBehindFailedScan ==
  [][\A l \in EthLoopIds :
       EthTickStep(l)
         => \A b \in (ethLastProcessedBlock + 1)..ethLastProcessedBlock' :
              b \in ethScannedOk']_vars

C9_MintAmountInWei ==
  \A i \in DOMAIN mintSubs :
    LET wei == BigIntToString(BigIntMulPow10(BigIntOf(mintSubs[i].eventAmount),
                                             DecimalShift))
    IN mintSubs[i].message.amount = wei /\ mintSubs[i].proof.amount = wei

\* C10: a burn whose amount converts to zero motes is skipped: no release
\* proof is signed or submitted for it.
C10_NoReleaseForDust ==
  \A i \in DOMAIN releaseSubs : AmountInMotes(releaseSubs[i].eventAmount) # <<0>>

(***************************************************************************)
(* The conversion of submitReleaseProof on its own: the relayer is         *)
(* running, the Ethereum chain is at block 2 and its block 1 holds one     *)
(* AssetBurned log, whose amount is drawn from BurnAmounts; the monitor    *)
(* scans it and submits the release.                                       *)
(***************************************************************************)
\* the upper digits of the drawn amounts
BurnHighDigits ==
  {<< >>, <<1>>, <<2>>, <<5>>, <<9>>, <<1, 0>>, <<9, 9>>, <<1, 0, 0>>,
   <<5>> \o Zeros(DecimalShift), <<1, 2, 3, 4, 5, 6, 7, 8, 9>>}

\* their lower DecimalShift digits: multiples of 10^9 and amounts next to them
BurnLowDigits ==
  {Zeros(DecimalShift),
   Zeros(DecimalShift - 1) \o <<1>>,
   <<1>> \o Zeros(DecimalShift - 1),
   <<4>> \o [i \in 1..(DecimalShift - 1) |-> 9],
   <<5>> \o Zeros(DecimalShift - 1),
   [i \in 1..DecimalShift |-> 9]}

\* the amounts (uint256, as canonical digit sequences) burn() is called with
BurnAmounts == {StripZeros(h \o l) : h \in BurnHighDigits, l \in BurnLowDigits}

ConvInit ==
  /\ direction = "burn"
  /\ relayerIsRunning = TRUE
  /\ relayerStopPending = FALSE
  /\ lockListeners = 1
  /\ burnListeners = 1
  /\ ethHead = 2
  /\ \E amount \in BurnAmounts :
       ethLogs = <<[blockNumber |-> 1,
                    txHash |-> EthTxHash(1),
                    amount |-> amount,
                    destinationAddress |-> CasperRecipient,
                    nonce |-> 0,
                    watched |-> TRUE]>>
  /\ ethIsRunning = TRUE
  /\ ethContract = TRUE
  /\ ethLastProcessedBlock = 0
  /\ ethLoops = [l \in EthLoopIds |->
                   IF l = 1 THEN [EthIdle EXCEPT !.pc = "head"] ELSE EthIdle]
  /\ releaseSubs = << >>
  /\ casperHead = 0
  /\ casperBlocks = [h \in 0..MaxCasperHead |-> << >>]
  /\ casperIsRunning = TRUE
  /\ casperLastProcessedBlock = 0
  /\ processedDeploys = {}
  /\ pendingDeploys = << >>
  /\ casperLoops = [l \in CasperLoopIds |-> CasperIdle]
  /\ mintSubs = << >>
  /\ ethScanned = {}
  /\ ethScannedOk = {}
  /\ casperWatched = {}
  /\ ethStopSeen = FALSE
  /\ casperStopSeen = FALSE
  /\ tracks = 0
  /\ wrapper = WrapperConstructed(Deployer, 1, 1)
  /\ lastCall = NoCall
  /\ signed = << >>

ConvNext ==
  \/ \E ok \in BOOLEAN : EthGetBlockNumber(1, ok)
  \/ \E ok \in BOOLEAN : EthQueryFilter(1, ok)
  \/ EthWake(1)
  \/ \E ok \in BOOLEAN : ReleasePut(1, ok)

ConvSpec == ConvInit /\ [][ConvNext]_vars

\* C11: the amount of a release proof is the floor of the burnt amount over
\* 10^9: amountInMotes * 10^9 <= amount < (amountInMotes + 1) * 10^9, never
\* rounded up or to nearest, and the signed message carries the same amount.
C11_ReleaseAmountIsFloor ==
  \A i \in DOMAIN releaseSubs :
    LET amount == BigIntOf(releaseSubs[i].eventAmount)
        motes == BigIntOf(releaseSubs[i].proof.amount)
    IN /\ releaseSubs[i].message.amount = releaseSubs[i].proof.amount
       /\ BigIntLeq(BigIntMulPow10(motes, DecimalShift), amount)
       /\ BigIntLess(amount, BigIntMulPow10(BigIntSucc(motes), DecimalShift))

\* a release was submitted for an amount that is no multiple of 10^9 and whose
\* remainder is at least half of 10^9
C11_TruncatedRelease ==
  \E i \in DOMAIN releaseSubs :
    LET amount == BigIntOf(releaseSubs[i].eventAmount)
        motes == BigIntOf(releaseSubs[i].proof.amount)
    IN /\ motes # <<0>>
       /\ Len(amount) > DecimalShift
       /\ amount[Len(amount) - DecimalShift + 1] >= 5
       /\ BigIntMulPow10(motes, DecimalShift) # amount

(***************************************************************************)
(* The two conversions one after the other.  The conversion from motes to  *)
(* wei is the one documented for submitMintProof, amountInMotes *          *)
(* BigInt(1_000_000_000); the way back is the division of                  *)
(* submitReleaseProof.  A lock of an amount drawn from LockAmounts was     *)
(* minted with the documented conversion, the minted amount was burnt in   *)
(* block 1 of the Ethereum chain, and the monitor scans it and submits the *)
(* release.                                                                *)
(***************************************************************************)
\* the documented conversion of submitMintProof: motes (9 decimals) to wei (18)
AmountInWei(amount) == BigIntMulPow10(BigIntOf(amount), DecimalShift)

\* submitMintProof with the documented conversion, its transaction confirmed
ConvertedMintProofCall(lockEvent) ==
  LET call == SubmitMintProofCall(lockEvent)
      amountInWei == BigIntToString(AmountInWei(lockEvent.amount))
  IN [call EXCEPT !.message.amount = amountInWei,
                  !.proof.amount = amountInWei,
                  !.txNonce = <<0>>,
                  !.sent = TRUE,
                  !.pc = "confirmed"]

\* the amounts in motes lock_cspr is called with
LockAmounts == BurnAmounts

RoundInit ==
  /\ direction = "burn"
  /\ relayerIsRunning = TRUE
  /\ relayerStopPending = FALSE
  /\ lockListeners = 1
  /\ burnListeners = 1
  /\ ethHead = 2
  /\ \E amount \in LockAmounts :
       /\ mintSubs = <<ConvertedMintProofCall(
                         [sourceTxHash |-> DeployA,
                          amount |-> amount,
                          destinationAddress |-> EthRecipient,
                          nonce |-> ParseNonce(DeployA)]) @@ YieldedAt(0, 0)>>
       /\ ethLogs = <<[blockNumber |-> 1,
                       txHash |-> EthTxHash(1),
                       amount |-> mintSubs[1].proof.amount,
                       destinationAddress |-> CasperRecipient,
                       nonce |-> 0,
                       watched |-> TRUE]>>
  /\ ethIsRunning = TRUE
  /\ ethContract = TRUE
  /\ ethLastProcessedBlock = 0
  /\ ethLoops = [l \in EthLoopIds |->
                   IF l = 1 THEN [EthIdle EXCEPT !.pc = "head"] ELSE EthIdle]
  /\ releaseSubs = << >>
  /\ casperHead = 0
  /\ casperBlocks = [h \in 0..MaxCasperHead |-> << >>]
  /\ casperIsRunning = TRUE
  /\ casperLastProcessedBlock = 0
  /\ processedDeploys = {DeployA}
  /\ pendingDeploys = << >>
  /\ casperLoops = [l \in CasperLoopIds |-> CasperIdle]
  /\ ethScanned = {}
  /\ ethScannedOk = {}
  /\ casperWatched = {}
  /\ ethStopSeen = FALSE
  /\ casperStopSeen = FALSE
  /\ tracks = 0
  /\ wrapper = WrapperConstructed(Deployer, 1, 1)
  /\ lastCall = NoCall
  /\ signed = << >>

RoundSpec == RoundInit /\ [][ConvNext]_vars

C13_NoBroadcastAfterRejection ==
  [][\A i \in DOMAIN mintSubs : \A j \in DOMAIN mintSubs' :
       (mintSubs[i].pc = "failed" /\ mintSubs'[j].source = mintSubs[i].source)
         => /\ j \in DOMAIN mintSubs
            /\ ~(mintSubs[j].pc = "mint" /\ mintSubs'[j].pc = "send")]_vars

\* a submit call that has not returned: it awaits contract.mint(proof),
\* tx.wait() or putDeploy(signedDeploy)
InFlight(rec) == rec.pc \in {"mint", "send", "wait", "put"}

\* C14 as stated: a submission that was broadcast is polled for its execution
\* result until it has a terminal outcome; so a submission whose call has
\* returned is confirmed, failed or failed-unconfirmed, and none is left in
\* the submitted state.
C14_ReturnedWithOutcome ==
  /\ \A i \in DOMAIN mintSubs :
       ~InFlight(mintSubs[i])
         => mintSubs[i].pc \in {"confirmed", "failed", "failed-unconfirmed"}
  /\ \A i \in DOMAIN releaseSubs :
       ~InFlight(releaseSubs[i])
         => releaseSubs[i].pc \in {"confirmed", "failed", "failed-unconfirmed"}

\* C15 as stated: within one direction the events are handled one at a time,
\* so at most one submission per direction is in flight (between its
\* invocation and its outcome) at any moment.
C15_OneSubmissionInFlight ==
  /\ Cardinality({i \in DOMAIN mintSubs : InFlight(mintSubs[i])}) <= 1
  /\ Cardinality({i \in DOMAIN releaseSubs : InFlight(releaseSubs[i])}) <= 1

\* C16 as stated: within one direction the submissions are broadcast in the
\* order in which their events were observed.  The records of mintSubs and
\* releaseSubs are in the order of observation.  submitReleaseProof calls
\* putDeploy in the step that invokes it, so releases are handed over in that
\* order; a mint transaction is handed to the node when contract.mint has
\* populated it: then no submission observed before it is still to be
\* populated.
C16_BroadcastInObservationOrder ==
  \A i, j \in DOMAIN mintSubs :
    (i < j /\ mintSubs[j].txNonce # << >>) => mintSubs[i].pc # "mint"

\* C17 as stated: two submissions sent from the relayer's Ethereum account are
\* never constructed with the same account nonce, also when their submit
\* calls overlap: of two transactions populated with one nonce, one was given
\* up (failed) before the other was populated, so the two are never pending
\* together.
C17_DistinctAccountNonces ==
  \A i, j \in DOMAIN mintSubs :
    (i # j /\ mintSubs[i].txNonce # << >> /\ mintSubs[i].txNonce = mintSubs[j].txNonce)
      => mintSubs[i].pc = "failed" \/ mintSubs[j].pc = "failed"

\* a step in which loop l of EthereumMonitor issues a gateway read:
\* getBlockNumber (of start() or of pollEvents) or queryFilter for a chunk
EthIssuesRead(l) ==
  /\ ethLoops'[l] # ethLoops[l]
  /\ ethLoops'[l].pc \in {"startGet", "head", "scan"}

\* a step in which loop l of CasperMonitor issues a gateway read:
\* getLatestBlockInfo, getBlockInfo or getDeploy
CasperIssuesRead(l) ==
  /\ casperLoops'[l] # casperLoops[l]
  /\ casperLoops'[l].pc \in {"latest", "block", "deploy", "pending"}

\* C18 as stated: once stop() was called on a watcher (and while it is not
\* started again) the watcher issues no further range scan and no further
\* block or deploy read, also when stop() came during a read or during the
\* sleep between ticks; and no loop of a stopped watcher is left sleeping.
C18_NoReadsAfterStop ==
  [][/\ (ethStopSeen /\ ~ethIsRunning /\ ~ethIsRunning')
          => \A l \in EthLoopIds : ~EthIssuesRead(l)
     /\ (casperStopSeen /\ ~casperIsRunning /\ ~casperIsRunning')
          => \A l \in CasperLoopIds : ~CasperIssuesRead(l)
     /\ ~ethIsRunning' => \A l \in EthLoopIds : ethLoops'[l].pc # "sleep"
     /\ ~casperIsRunning' => \A l \in CasperLoopIds : casperLoops'[l].pc # "sleep"]_vars

\* C19 as stated: stop() does not complete (and the signal handler of main
\* does not go on to process.exit) while a submission that was broadcast is
\* still in its confirmation wait.
C19_StopAwaitsConfirmation ==
  [][(relayerStopPending /\ ~relayerStopPending')
       => \A i \in DOMAIN mintSubs' : mintSubs'[i].pc # "wait"]_vars

(***************************************************************************)
(* The lock direction with malformed deploys on the chain: blocks hold     *)
(* deploys that call lock_cspr with an argument missing, alone or before a *)
(* well-formed lock, and such deploys are tracked.                         *)
(***************************************************************************)
MalformedBodies ==
  {<< >>, <<DeployNoAmount>>, <<DeployNoChain>>, <<DeployNoAddress>>,
   <<DeployNoAmount, DeployA>>}

MalformedInit == Init /\ direction = "lock"

MalformedNext ==
  \/ RelayerStart
  \/ RelayerStop
  \/ RelayerStopClosed
  \/ \E ds \in MalformedBodies : CasperMine(ds)
  \/ \E d \in MalformedDeploys : TrackDeploy(d)
  \/ \E l \in CasperLoopIds : \E ok \in BOOLEAN : CasperGetLatestBlockInfo(l, ok)
  \/ \E l \in CasperLoopIds : \E ok \in BOOLEAN : CasperGetBlockInfo(l, ok)
  \/ \E l \in CasperLoopIds : \E ok \in BOOLEAN : CasperCheckDeploy(l, ok)
  \/ \E l \in CasperLoopIds : \E ok \in BOOLEAN : CasperCheckPending(l, ok)
  \/ \E l \in CasperLoopIds : CasperWake(l)
  \/ \E i \in 1..MaxSubs : \E ok \in BOOLEAN : MintPopulate(i, ok)
  \/ \E i \in 1..MaxSubs : \E ok \in BOOLEAN : MintSend(i, ok)
  \/ \E i \in 1..MaxSubs : \E ok \in BOOLEAN : MintWait(i, ok)

MalformedSpec == MalformedInit /\ [][MalformedNext]_vars

\* C20: a deploy that calls lock_cspr on the vault with destination_chain,
\* destination_address or amount missing is skipped: no AssetLocked is
\* emitted and no mint is submitted for it, it is not marked as processed,
\* and the polling loop does not end because of it (it ends after stop()
\* only).
C20_MalformedDeploySkipped ==
  /\ \A i \in DOMAIN mintSubs : mintSubs[i].source \notin MalformedDeploys
  /\ processedDeploys \cap MalformedDeploys = {}
  /\ \A l \in CasperLoopIds : casperLoops[l].pc = "done" => casperStopSeen

\* a tracked malformed deploy was executed, examined by checkPendingDeploys
\* and dropped from pendingDeploys, and the loop polls on
C20_MalformedExamined ==
  /\ tracks > 0
  /\ pendingDeploys = << >>
  /\ \E d \in MalformedDeploys : IncludedAt(d) # -1
  /\ mintSubs = << >>
  /\ ~casperStopSeen
  /\ \E l \in CasperLoopIds : casperLoops[l].pc = "latest"

(***************************************************************************)
(* The wrapper contract on its own: it is deployed with drawn parameters   *)
(* and receives transactions from any account; the relayer is not started. *)
(***************************************************************************)
\* amounts of mint proofs and of burns
WrapperAmounts == {1, 3, MaxUint - 1}

\* signatures for a hash: of each account, and one made over another hash
SignaturesFor(hash) ==
  {[signer |-> a, over |-> hash] : a \in Accounts}
    \cup {[signer |-> Deployer, over |-> <<"other">>]}

\* the proofs mint is called with
MintProofs ==
  UNION {LET base == [sourceChain |-> "casper", sourceTxHash |-> "0xabc123",
                      amount |-> amount, recipient |-> recipient, nonce |-> n]
             sigs == SignaturesFor(MessageHash(base))
         IN {base @@ [validatorSignatures |-> l] :
               l \in {<< >>} \cup {<<x>> : x \in sigs}
                      \cup {<<x, y>> : x \in sigs, y \in sigs}}
         : amount \in WrapperAmounts, recipient \in {"alice", ZeroAddress},
           n \in 0..1}

WrapperInit ==
  /\ direction = "lock"
  /\ relayerIsRunning = FALSE
  /\ relayerStopPending = FALSE
  /\ lockListeners = 0
  /\ burnListeners = 0
  /\ ethHead = 0
  /\ ethLogs = << >>
  /\ ethIsRunning = FALSE
  /\ ethContract = FALSE
  /\ ethLastProcessedBlock = 0
  /\ ethLoops = [l \in EthLoopIds |-> EthIdle]
  /\ releaseSubs = << >>
  /\ casperHead = 0
  /\ casperBlocks = [h \in 0..MaxCasperHead |-> << >>]
  /\ casperIsRunning = FALSE
  /\ casperLastProcessedBlock = 0
  /\ processedDeploys = {}
  /\ pendingDeploys = << >>
  /\ casperLoops = [l \in CasperLoopIds |-> CasperIdle]
  /\ mintSubs = << >>
  /\ ethScanned = {}
  /\ ethScannedOk = {}
  /\ casperWatched = {}
  /\ ethStopSeen = FALSE
  /\ casperStopSeen = FALSE
  /\ tracks = 0
  /\ \E r \in 1..2 : \E m \in {1, 3} :
       wrapper = WrapperConstructed(Deployer, r, m)
  /\ lastCall = NoCall
  /\ signed = << >>

WrapperNext ==
  \/ \E proof \in MintProofs : WrapperMint(proof)
  \/ \E sender \in {"alice", "bob"} : \E amount \in WrapperAmounts :
       \E destinationAddress \in {CasperRecipient, ""} :
         WrapperBurn(sender, amount, destinationAddress)
  \/ \E sender \in {Deployer, "alice"} :
       \E fn \in {"addValidator", "removeValidator"} :
         \E validator \in Accounts \cup {ZeroAddress} :
           WrapperValidator(sender, fn, validator)
  \/ \E sender \in {Deployer, "alice"} :
       \/ \E fn \in {"pause", "unpause"} : WrapperAdmin(sender, fn, 0)
       \/ \E arg \in 0..3 : WrapperAdmin(sender, "setRequiredSignatures", arg)
       \/ \E arg \in {1, 3} : WrapperAdmin(sender, "setMinBurnAmount", arg)
       \/ \E arg \in {"alice", ZeroAddress} :
            WrapperAdmin(sender, "transferOwnership", arg)

WrapperSpec == WrapperInit /\ [][WrapperNext]_vars

\* the nonces of the AssetMinted events emitted so far
MintedNonces(w) ==
  {w.events[k].nonce : k \in {j \in DOMAIN w.events : w.events[j].event = "AssetMinted"}}

\* a transaction calls mint with a proof whose nonce was minted before
ReplayedMint ==
  /\ lastCall'.n = lastCall.n + 1
  /\ lastCall'.fn = "mint"
  /\ lastCall'.nonce \in MintedNonces(wrapper)

\* C21 as stated: after a successful mint with nonce n, every later mint
\* whose proof carries n reverts with 'Proof already processed' and changes no
\* balance, whatever mint, burn and admin calls came in between.
C21_ReplayRevertsAsProcessed ==
  [][ReplayedMint => /\ lastCall'.result = "Proof already processed"
                     /\ wrapper'.balances = wrapper.balances]_vars

\* C21, amended: every later mint whose proof carries n reverts and changes
\* nothing, so no two AssetMinted events carry one nonce; the revert reason is
\* 'Proof already processed' unless the contract is paused, in which case
\* whenNotPaused reverts first.
C21_MintOncePerNonce ==
  [][/\ ReplayedMint
          => /\ lastCall'.result =
                  (IF wrapper.paused THEN "EnforcedPause" ELSE "Proof already processed")
             /\ wrapper' = wrapper
     /\ \A i, j \in {k \in DOMAIN wrapper'.events :
                        wrapper'.events[k].event = "AssetMinted"} :
          wrapper'.events[i].nonce = wrapper'.events[j].nonce => i = j]_vars

\* a mint was replayed and reverted with 'Proof already processed'
C21_ReplayRejected ==
  /\ lastCall.fn = "mint"
  /\ lastCall.result = "Proof already processed"
  /\ lastCall.nonce \in MintedNonces(wrapper)
  /\ lastCall.signedBy # {}

BurnEvents(w) == SelectSeq(w.events, LAMBDA e : e.event = "AssetBurned")

\* C23: a successful burn emits AssetBurned with the current burn nonce and
\* increments the nonce by one, so the emitted nonces are 0, 1, 2, ... in
\* order; a burn below minBurnAmount, with an empty destination or above the
\* sender's balance reverts: no nonce is used, nothing changes.
C23_BurnNoncesConsecutive ==
  [][/\ (lastCall'.n = lastCall.n + 1 /\ lastCall'.fn = "burn")
          => IF \/ wrapper.paused
                \/ lastCall'.amount < wrapper.minBurnAmount
                \/ lastCall'.destinationAddress = ""
                \/ wrapper.balances[lastCall'.sender] < lastCall'.amount
             THEN lastCall'.result # "ok" /\ wrapper' = wrapper
             ELSE /\ lastCall'.result = "ok"
                  /\ wrapper'.nonce = wrapper.nonce + 1
                  /\ wrapper'.events[Len(wrapper'.events)].nonce = wrapper.nonce
                  /\ wrapper'.totalBridged = wrapper.totalBridged - lastCall'.amount
     /\ \A k \in DOMAIN BurnEvents(wrapper') : BurnEvents(wrapper')[k].nonce = k - 1
     /\ wrapper'.nonce = Len(BurnEvents(wrapper'))]_vars

\* two burns succeeded
C23_TwoBurns ==
  /\ Len(BurnEvents(wrapper)) = 2
  /\ lastCall.fn = "burn"
  /\ lastCall.result = "ok"

\* C24: while the contract is paused every mint and every burn reverts and
\* changes nothing; while it is not paused (in particular after unpause) a
\* mint of a proof with an unused nonce, signed by at least
\* requiredSignatures distinct validators, to a non-zero recipient and within
\* the range of totalBridged, succeeds and credits the recipient.
C24_PauseBlocksMintAndBurn ==
  [][(lastCall'.n = lastCall.n + 1 /\ lastCall'.fn \in {"mint", "burn"})
       => /\ wrapper.paused
               => lastCall'.result = "EnforcedPause" /\ wrapper' = wrapper
          /\ (/\ lastCall'.fn = "mint"
               /\ ~wrapper.paused
               /\ lastCall'.nonce \notin wrapper.processedNonces
               /\ Cardinality(lastCall'.signedBy) >= wrapper.requiredSignatures
               /\ lastCall'.recipient # ZeroAddress
               /\ wrapper.totalBridged + lastCall'.amount <= MaxUint)
               => /\ lastCall'.result = "ok"
                  /\ wrapper'.balances[lastCall'.recipient]
                       = wrapper.balances[lastCall'.recipient] + lastCall'.amount]_vars

\* the contract was paused and unpaused, and the mint after that succeeded
C24_MintAfterUnpause ==
  /\ \E i \in DOMAIN wrapper.events : wrapper.events[i].event = "Unpaused"
  /\ ~wrapper.paused
  /\ lastCall.fn = "mint"
  /\ lastCall.result = "ok"

\* validatorList holds exactly the addresses flagged in validators, each once
ListMatchesFlags(w) ==
  /\ {w.validatorList[i] : i \in DOMAIN w.validatorList} = w.validators
  /\ Len(w.validatorList) = Cardinality(w.validators)

\* C25: addValidator and removeValidator called by anyone but the owner
\* revert and change nothing, and before and after every call validatorList
\* contains exactly the addresses whose validators flag is true, each once.
C25_ValidatorListMatchesFlags ==
  [][/\ (/\ lastCall'.n = lastCall.n + 1
          /\ lastCall'.fn \in {"addValidator", "removeValidator"}
          /\ lastCall'.sender # wrapper.owner)
          => lastCall'.result = "OwnableUnauthorizedAccount" /\ wrapper' = wrapper
     /\ ListMatchesFlags(wrapper)
     /\ ListMatchesFlags(wrapper')]_vars

\* a validator was removed from a list of three, two remain
C25_RemovedFromThree ==
  /\ lastCall.fn = "removeValidator"
  /\ lastCall.result = "ok"
  /\ Len(wrapper.validatorList) = 2

\* C26: tracked deploys pass through the same record of processed deploys as
\* the block scan: no AssetLocked emission, and so no mint submission, is
\* made for a deploy hash that is already in processedDeploys.
C26_TrackedDeployDeduplicated ==
  [][\A i \in DOMAIN mintSubs' :
       i > Len(mintSubs) => mintSubs'[i].source \notin processedDeploys]_vars

\* C27: the sourceTxHash of the signed message and of the submitted proof is
\* the source transaction id of the event that triggered the submission: the
\* deploy hash for a lock, the transaction hash for a burn.
C27_SourceTxHashCarried ==
  /\ \A i \in DOMAIN mintSubs :
       /\ mintSubs[i].message.sourceTxHash = mintSubs[i].source
       /\ mintSubs[i].proof.sourceTxHash = mintSubs[i].source
  /\ \A i \in DOMAIN releaseSubs :
       /\ releaseSubs[i].message.sourceTxHash = releaseSubs[i].source
       /\ releaseSubs[i].proof.sourceTxHash = releaseSubs[i].source

\* C28: after a rejected gateway read a watcher sleeps the poll interval
\* before it issues its next gateway read: no loop is at a gateway read while
\* its previous read was rejected and it has not slept since.
C28_BackoffAfterFailedRead ==
  /\ \A l \in EthLoopIds :
       ethLoops[l].failed => ethLoops[l].pc \notin {"head", "scan"}
  /\ \A l \in CasperLoopIds :
       casperLoops[l].failed
         => casperLoops[l].pc \notin {"latest", "block", "deploy", "pending"}

\* C29: the set of processed deploy hashes only grows: no step of the run
\* (polls, trackDeploy, stop() and start()) removes a hash from it.
C29_ProcessedOnlyGrows ==
  [][processedDeploys \subseteq processedDeploys']_vars

\* two deploys are recorded as processed, and the watcher was stopped and
\* started again in between or afterwards
C29_ProcessedAcrossRestart ==
  /\ Cardinality(processedDeploys) >= 2
  /\ casperStopSeen
  /\ casperIsRunning

\* C30: for any sequence of start() and stop() at most one handler is
\* registered for AssetLocked and for AssetBurned at a time, so that an
\* emission calls the submit function once: a step of the Casper watcher,
\* which emits at most one AssetLocked, adds at most one mint submission.
C30_OneSubmitPerEmission ==
  [][/\ lockListeners' <= 1
     /\ burnListeners' <= 1
     /\ Len(mintSubs') <= Len(mintSubs) + 1]_vars

\* C31: at most one pollEvents loop of each monitor is alive (awaiting a
\* gateway read or sleeping) at any time, whatever sequence of start() and
\* stop() was called.
C31_OneLoopPerMonitor ==
  /\ Cardinality({l \in EthLoopIds : ethLoops[l].pc \in {"head", "scan", "sleep"}}) <= 1
  /\ Cardinality({l \in CasperLoopIds :
                    casperLoops[l].pc \in {"latest", "block", "deploy",
                                           "pending", "sleep"}}) <= 1

(***************************************************************************)
(* Tracked deploys of every kind: complete locks, locks with a missing     *)
(* argument, failed deploys and deploys that are no lock_cspr call on the  *)
(* vault are registered with trackDeploy and included in blocks.           *)
(***************************************************************************)
TrackedDeploys ==
  {DeployA, DeployNoAmount, DeployFailed, DeployOtherContract, DeployOtherEntry}

TrackedNext ==
  \/ RelayerStart
  \/ RelayerStop
  \/ RelayerStopClosed
  \/ \E d \in TrackedDeploys : CasperMine(<<d>>)
  \/ \E d \in TrackedDeploys : TrackDeploy(d)
  \/ \E l \in CasperLoopIds : \E ok \in BOOLEAN : CasperGetLatestBlockInfo(l, ok)
  \/ \E l \in CasperLoopIds : \E ok \in BOOLEAN : CasperGetBlockInfo(l, ok)
  \/ \E l \in CasperLoopIds : \E ok \in BOOLEAN : CasperCheckDeploy(l, ok)
  \/ \E l \in CasperLoopIds : \E ok \in BOOLEAN : CasperCheckPending(l, ok)
  \/ \E l \in CasperLoopIds : CasperWake(l)
  \/ \E i \in 1..MaxSubs : \E ok \in BOOLEAN : MintPopulate(i, ok)
  \/ \E i \in 1..MaxSubs : \E ok \in BOOLEAN : MintSend(i, ok)
  \/ \E i \in 1..MaxSubs : \E ok \in BOOLEAN : MintWait(i, ok)

TrackedSpec == MalformedInit /\ [][TrackedNext]_vars

\* d executed successfully as a lock_cspr call on the configured vault with
\* destination_chain, destination_address and amount
IsCompleteVaultLock(d) ==
  /\ d # DeployFailed
  /\ d \notin {DeployOtherContract, DeployOtherEntry}
  /\ d \notin MalformedDeploys

\* C32: when a loop's getDeploy for the tracked deploy d has answered (the
\* loop moves on to the next tracked deploy or leaves checkPendingDeploys),
\* d stays in pendingDeploys if it is not executed yet, and whenever it stays
\* nothing is emitted; if this step removes d it was executed, and AssetLocked
\* is emitted for it exactly if it executed successfully as a lock_cspr call
\* on the vault with complete arguments; an emission is always for such a d.
C32_TrackedUntilExecuted ==
  [][\A l \in CasperLoopIds :
       (/\ casperLoops[l].pc = "pending"
        /\ \/ casperLoops'[l].pc # "pending"
           \/ casperLoops'[l].d # casperLoops[l].d)
         => LET d == casperLoops[l].d
                kept == PosOf(pendingDeploys', d) > 0
                removed == PosOf(pendingDeploys, d) > 0 /\ ~kept
                emitted == Len(mintSubs') > Len(mintSubs)
            IN /\ (IncludedAt(d) = -1 /\ PosOf(pendingDeploys, d) > 0) => kept
               /\ kept => ~emitted /\ processedDeploys' = processedDeploys
               /\ removed => /\ IncludedAt(d) # -1
                             /\ emitted <=> IsCompleteVaultLock(d)
               /\ emitted => /\ IncludedAt(d) # -1
                             /\ IsCompleteVaultLock(d)
                             /\ mintSubs'[Len(mintSubs')].source = d]_vars

\* the failed deploy was tracked, queried once executed, and dropped from
\* pendingDeploys without an emission
C32_FailedDeployDropped ==
  /\ tracks > 0
  /\ pendingDeploys = << >>
  /\ IncludedAt(DeployFailed) # -1
  /\ \A d \in TrackedDeploys \ {DeployFailed} : IncludedAt(d) = -1
  /\ mintSubs = << >>

\* C33: in every submission the signed tuple and the tuple of the submitted
\* proof agree field by field (the nonce of a mint is signed as the decimal
\* string of the number in the proof); for a release both carry the amount
\* after the conversion to motes.
C33_SignedTupleIsProofTuple ==
  /\ \A i \in DOMAIN mintSubs :
       /\ mintSubs[i].message.sourceChain = mintSubs[i].proof.sourceChain
       /\ mintSubs[i].message.sourceTxHash = mintSubs[i].proof.sourceTxHash
       /\ mintSubs[i].message.amount = mintSubs[i].proof.amount
       /\ mintSubs[i].message.recipient = mintSubs[i].proof.recipient
       /\ mintSubs[i].message.nonce = NatToString(mintSubs[i].proof.nonce)
  /\ \A i \in DOMAIN releaseSubs :
       /\ releaseSubs[i].message.sourceChain = releaseSubs[i].proof.sourceChain
       /\ releaseSubs[i].message.sourceTxHash = releaseSubs[i].proof.sourceTxHash
       /\ releaseSubs[i].message.amount = releaseSubs[i].proof.amount
       /\ releaseSubs[i].message.recipient = releaseSubs[i].proof.recipient
       /\ releaseSubs[i].message.nonce = releaseSubs[i].proof.nonce
       /\ releaseSubs[i].proof.amount
            = BigIntToString(AmountInMotes(releaseSubs[i].eventAmount))

\* a release was submitted whose amount in motes differs from the amount of
\* the burn event
C33_ConvertedReleaseSubmitted ==
  \E i \in DOMAIN releaseSubs :
    /\ releaseSubs[i].proof.amount # BigIntToString(BigIntOf(releaseSubs[i].eventAmount))
    /\ releaseSubs[i].proof.amount # <<0>>

\* C34: mint submissions for different lock deploys carry different nonces,
\* so that the processedNonces test of the wrapper never refuses a lock
\* because of another lock.
C34_DistinctLocksDistinctNonces ==
  \A i, j \in DOMAIN mintSubs :
    mintSubs[i].source # mintSubs[j].source
      => mintSubs[i].proof.nonce # mintSubs[j].proof.nonce

(***************************************************************************)
(* The signers on their own: createMessage and createMessageHash are       *)
(* called with drawn tuples, as submitReleaseProof and submitMintProof     *)
(* call them (amount and nonce as decimal strings for createMessage).      *)
(***************************************************************************)
SignerTuples ==
  [sourceChain : {"casper", "caspe"}, sourceTxHash : {"0xab", "r0xab"},
   amount : {5, 50}, recipient : {"2a", "a"}, nonce : {1, 12}]

\* this.signer.createMessage(...) of CasperSigner
CreateMessage(t) ==
  /\ Len(signed) < MaxSigned
  /\ signed' = Append(signed,
                  [fn |-> "createMessage", args |-> t,
                   out |-> createMessage(t.sourceChain, t.sourceTxHash,
                                         ToString(t.amount), t.recipient,
                                         ToString(t.nonce))])
  /\ UNCHANGED <<direction, relayerVars, ethVars, casperVars, wrapperVars>>

\* this.signer.createMessageHash(...) of EthereumSigner
CreateMessageHash(t) ==
  /\ Len(signed) < MaxSigned
  /\ signed' = Append(signed,
                  [fn |-> "createMessageHash", args |-> t,
                   out |-> createMessageHash(t.sourceChain, t.sourceTxHash,
                                             t.amount, t.recipient, t.nonce)])
  /\ UNCHANGED <<direction, relayerVars, ethVars, casperVars, wrapperVars>>

SignerNext ==
  \/ \E t \in SignerTuples : CreateMessage(t)
  \/ \E t \in SignerTuples : CreateMessageHash(t)

SignerSpec == MalformedInit /\ [][SignerNext]_vars

\* C35: createMessage is injective: two calls with different tuples
\* (sourceChain, sourceTxHash, amount, recipient, nonce) never return the
\* same bytes.
C35_CreateMessageInjective ==
  \A i, j \in DOMAIN signed :
    (/\ signed[i].fn = "createMessage"
     /\ signed[j].fn = "createMessage"
     /\ signed[i].args # signed[j].args) => signed[i].out # signed[j].out

\* C36: the packed preimage is unambiguous: two calls of createMessageHash
\* with tuples that differ in a field never hash the same bytes.
C36_PackedPreimageUnambiguous ==
  \A i, j \in DOMAIN signed :
    (/\ signed[i].fn = "createMessageHash"
     /\ signed[j].fn = "createMessageHash"
     /\ signed[i].args # signed[j].args) => signed[i].out # signed[j].out

(***************************************************************************)
(* processBlocks on its own: a loop of EthereumMonitor enters              *)
(* processBlocks(fromBlock, toBlock) with drawn arguments; no burn is      *)
(* logged, and each queryFilter call resolves or rejects.                  *)
(***************************************************************************)
\* processBlocks(fromBlock, toBlock) at its first `while (currentFrom <=
\* toBlock)`: the first chunk is queried, or the function returns
ProcessBlocksEntry(fromBlock, toBlock) ==
  IF fromBlock <= toBlock
  THEN [EthIdle EXCEPT !.pc = "scan", !.from = fromBlock, !.cb = toBlock]
  ELSE [EthIdle EXCEPT !.pc = "sleep"]

ChunkInit ==
  /\ direction = "burn"
  /\ relayerIsRunning = TRUE
  /\ relayerStopPending = FALSE
  /\ lockListeners = 1
  /\ burnListeners = 1
  /\ ethLogs = << >>
  /\ ethIsRunning = TRUE
  /\ ethContract = TRUE
  /\ \E fromBlock \in 1..MaxChunkFrom : \E toBlock \in 0..MaxChunkTo :
       /\ ethHead = toBlock + EthConfirmationBlocks
       /\ ethLastProcessedBlock = fromBlock - 1
       /\ ethLoops = [l \in EthLoopIds |->
                        IF l = 1 THEN ProcessBlocksEntry(fromBlock, toBlock)
                        ELSE EthIdle]
  /\ releaseSubs = << >>
  /\ casperHead = 0
  /\ casperBlocks = [h \in 0..MaxCasperHead |-> << >>]
  /\ casperIsRunning = TRUE
  /\ casperLastProcessedBlock = 0
  /\ processedDeploys = {}
  /\ pendingDeploys = << >>
  /\ casperLoops = [l \in CasperLoopIds |-> CasperIdle]
  /\ mintSubs = << >>
  /\ ethScanned = {}
  /\ ethScannedOk = {}
  /\ casperWatched = {}
  /\ ethStopSeen = FALSE
  /\ casperStopSeen = FALSE
  /\ tracks = 0
  /\ wrapper = WrapperConstructed(Deployer, 1, 1)
  /\ lastCall = NoCall
  /\ signed = << >>

ChunkNext == \E ok \in BOOLEAN : EthQueryFilter(1, ok)

ChunkSpec == ChunkInit /\ [][ChunkNext]_vars

\* C37: every queryFilter call of processBlocks(from, to) covers at most
\* MAX_BLOCKS_PER_QUERY blocks, begins at from (the first) or right after
\* the chunk before it, covers no block twice and none outside from..to;
\* the next chunk begins higher up, and the call that ends the loop ends at
\* to: the chunks cover from..to exactly, after at most to - from + 1 calls.
C37_ChunksCoverRange ==
  [][(ethLoops[1].pc = "scan" /\ ethLoops'[1] # ethLoops[1])
       => LET currentFrom == ethLoops[1].from
              toBlock == ethLoops[1].cb
              chunk == ethScanned' \ ethScanned
              first == ethLastProcessedBlock + 1
          IN /\ ethScanned = first..(currentFrom - 1)
             /\ chunk # {}
             /\ Cardinality(chunk) <= MAX_BLOCKS_PER_QUERY
             /\ \E currentTo \in currentFrom..toBlock :
                  /\ chunk = currentFrom..currentTo
                  /\ IF ethLoops'[1].pc = "scan"
                     THEN /\ ethLoops'[1].from = currentTo + 1
                          /\ ethLoops'[1].from <= toBlock
                          /\ ethLoops'[1].cb = toBlock
                          /\ Cardinality(chunk) = MAX_BLOCKS_PER_QUERY
                     ELSE /\ currentTo = toBlock
                          /\ ethScanned' = first..toBlock]_vars

\* processBlocks returned after three chunks: 10, 10 and fewer blocks
C37_ThreeChunksDone ==
  /\ ethLoops[1].pc = "sleep"
  /\ Cardinality(ethScanned) > 2 * MAX_BLOCKS_PER_QUERY
  /\ Cardinality(ethScanned) < 3 * MAX_BLOCKS_PER_QUERY
====
